---- MODULE Spec2Model ----
(***************************************************************************)
(* Tax computation engine of wisesum-backend-hono: bracket calculators,    *)
(* self-employment tax, premium adjustments, the rule-expression evaluator  *)
(* and the W-2 vs 1099 scenario orchestrator with its break-even search.    *)
(*                                                                         *)
(* Numbers.  The program computes on IEEE doubles.  Here a monetary amount  *)
(* is a fixed-point integer counting thousandths of a dollar (one cent is   *)
(* 10), a rate is an integer numerator over RateDen, and a product is       *)
(* rounded to the nearest thousandth.  round2 (rounding to cents) therefore *)
(* stays a real conversion.                                                 *)
(*                                                                         *)
(* Data.  The JSON files the program imports (compiled state rules, federal *)
(* 2026 data, federal constants, state base rules) are not part of the      *)
(* source; they are inputs, drawn in Init from small sets of well-formed    *)
(* files, and held in the variables named after the imports.                *)
(***************************************************************************)
EXTENDS Integers, Sequences, FiniteSets, TLC

VARIABLES
    compiled2026,    \* stateTaxEngine.ts: import compiled_2026_all_states.json
    compiledBase2026,\* stateBaseCalc.ts: import of the compiled state base rules
    federal2026,     \* federal/2026.json (brackets, standardDeduction, premium blocks)
    federalConstants,\* federal_constants.json (seTax block per year)
    RULES_CACHE,     \* stateTaxEngine.ts module-level cache, key -> rules
    CACHE,           \* stateBaseCalc.ts module-level cache, key -> base rules
    simulations,     \* schema.sql: the rows of public.simulations of the user, today
    args,            \* the call under way: the function called and its inputs
    res,             \* its result (or the error it threw)
    pc               \* "call": not yet run, "done": returned or threw

vars == <<compiled2026, compiledBase2026, federal2026, federalConstants,
          RULES_CACHE, CACHE, simulations, args, res, pc>>

(***************************************************************************)
(* Bounds of the model                                                     *)
(***************************************************************************)
\* bracket tables have at most MaxBrackets caps before the unbounded bracket
MaxBrackets == 2
\* caps are CapStep dollars times 1..MaxCaps
MaxCaps == 3
CapStep == 1000

(***************************************************************************)
(* Numbers                                                                 *)
(***************************************************************************)
\* upTo: number | null
Null == -1
\* denominator of every rate: 0.0425 is 425
RateDen == 10000

Dollars(d) == d * 1000

Min(a, b) == IF a <= b THEN a ELSE b
Max(a, b) == IF a >= b THEN a ELSE b

\* const clamp0 = (n) => (n < 0 ? 0 : n)
clamp0(n) == IF n < 0 THEN 0 ELSE n

\* const round2 = (n) => Math.round(n * 100) / 100   (Math.round: half up)
round2(n) == ((n + 5) \div 10) * 10

\* x * rate on doubles: the product rounded to the nearest thousandth of a dollar
MulRate(x, rate) ==
    IF x >= 0
    THEN (x \div RateDen) * rate + ((x % RateDen) * rate + RateDen \div 2) \div RateDen
    ELSE 0 - ((((0 - x) \div RateDen) * rate)
              + ((((0 - x) % RateDen) * rate + RateDen \div 2) \div RateDen))

FilingStatuses == {"single", "mfj", "mfs", "hoh"}

Threw(msg) == [threw |-> TRUE, error |-> msg]

(***************************************************************************)
(* Bracket loops                                                           *)
(***************************************************************************)
\* the state loop with a slip: prev is never advanced past a taxed bracket
RECURSIVE StateBaseLoopStuckPrev(_, _, _, _, _)
StateBaseLoopStuckPrev(brackets, k, taxableBase, prev, taxAcc) ==
    IF k > Len(brackets) THEN taxAcc
    ELSE LET upTo == brackets[k].upTo
             sliceTop == IF upTo = Null THEN taxableBase ELSE Min(taxableBase, upTo)
             slice == clamp0(sliceTop - prev)
         IN  IF upTo = Null \/ taxableBase <= upTo
             THEN taxAcc + MulRate(slice, brackets[k].rate)
             ELSE StateBaseLoopStuckPrev(brackets, k + 1, taxableBase, prev,
                                         taxAcc + MulRate(slice, brackets[k].rate))

\* stateTaxEngine.ts calcStateTaxFromTaxableBase, the progressive loop
RECURSIVE StateBaseLoop(_, _, _, _, _)
StateBaseLoop(brackets, k, taxableBase, prev, taxAcc) ==
    IF k > Len(brackets) THEN taxAcc
    ELSE LET upTo == brackets[k].upTo
             rate == brackets[k].rate
             sliceTop == IF upTo = Null THEN taxableBase ELSE Min(taxableBase, upTo)
             slice == clamp0(sliceTop - prev)
         IN  IF slice <= 0
             THEN StateBaseLoop(brackets, k + 1, taxableBase,
                                IF upTo = Null THEN taxableBase ELSE upTo, taxAcc)
             ELSE IF upTo = Null \/ taxableBase <= upTo
                  THEN taxAcc + MulRate(slice, rate)
                  ELSE StateBaseLoop(brackets, k + 1, taxableBase, upTo,
                                     taxAcc + MulRate(slice, rate))

\* stateTaxEngine.ts applyBrackets: the loop on the remaining amount
RECURSIVE ApplyBracketsLoop(_, _, _, _, _)
ApplyBracketsLoop(brackets, k, remaining, lastCap, tax) ==
    IF k > Len(brackets) \/ remaining <= 0 THEN tax
    ELSE LET upTo == brackets[k].upTo
             bandSize == IF upTo = Null THEN remaining ELSE Max(0, upTo - lastCap)
             amountTaxed == Min(remaining, bandSize)
         IN  ApplyBracketsLoop(brackets, k + 1, remaining - amountTaxed,
                               IF upTo = Null THEN lastCap ELSE upTo,
                               tax + MulRate(amountTaxed, brackets[k].rate))

\* applyBrackets with a slip: the whole amount is taxed at the rate of the bracket
\* it falls in
applyBracketsCliff(taxable, brackets) ==
    LET reached == {k \in 1..Len(brackets) :
                       brackets[k].upTo = Null \/ taxable <= brackets[k].upTo}
        top == CHOOSE k \in reached : \A j \in reached : k <= j
    IN  [tax |-> round2(MulRate(taxable, brackets[top].rate))]

applyBrackets(taxable, brackets) ==
    [tax |-> round2(ApplyBracketsLoop(brackets, 1, taxable, 0, 0))]

\* simulationService.ts calcProgressiveTax (the result is not rounded)
calcProgressiveTax(taxable, brackets) ==
    ApplyBracketsLoop(brackets, 1, Max(0, taxable), 0, 0)

\* federalTaxEngine.ts calcFederalIncomeTax and estimatedQuartely.ts
\* calcTaxFromBrackets share this loop: prev advances to every cap
RECURSIVE FederalLoop(_, _, _, _, _)
FederalLoop(brackets, k, taxableIncome, prev, tax) ==
    IF k > Len(brackets) THEN tax
    ELSE LET upTo == brackets[k].upTo
             top == IF upTo = Null THEN taxableIncome ELSE Min(taxableIncome, upTo)
             band == clamp0(top - prev)
             t == tax + MulRate(band, brackets[k].rate)
         IN  IF upTo = Null \/ taxableIncome <= upTo THEN t
             ELSE FederalLoop(brackets, k + 1, taxableIncome, upTo, t)

(***************************************************************************)
(* State tax engine (stateTaxEngine.ts)                                     *)
(***************************************************************************)
NO_INCOME_TAX_STATES == {"AK", "FL", "NV", "SD", "TN", "TX", "WA", "WY"}

\* the state strings callers pass, and what toUpperCase().trim() makes of them
RawStates == {"CA", "ca", " ny ", "NY", "IL", "TX", "OR", "NH", "ZZ"}
normalizeState(s) ==
    CASE s = "ca" -> "CA"
      [] s = " ny " -> "NY"
      [] OTHER -> s

\* COMPILED_RULES: only 2026 is registered
CompiledYears == {2026}

CacheKey(y, state) == <<y, state>>

\* the ruleset goes into the cache before it is validated
loadStateRulesUnvalidated(year, stateRaw, cache) ==
    LET state == normalizeState(stateRaw)
        key == CacheKey(year, state)
    IN  IF year \notin CompiledYears
        THEN [threw |-> TRUE, found |-> FALSE, cache |-> cache]
        ELSE IF key \in DOMAIN cache
        THEN [threw |-> FALSE, found |-> TRUE, rules |-> cache[key], cache |-> cache]
        ELSE IF state \notin DOMAIN compiled2026
        THEN [threw |-> FALSE, found |-> FALSE, cache |-> cache]
        ELSE [threw |-> normalizeState(compiled2026[state].state) # state
                        \/ compiled2026[state].year # year,
              found |-> TRUE, rules |-> compiled2026[state],
              cache |-> (key :> compiled2026[state]) @@ cache]

\* loadStateRules(year, stateRaw): the rules or null, or a throw; the cache after it
loadStateRules(year, stateRaw, cache) ==
    LET state == normalizeState(stateRaw)
        key == CacheKey(year, state)
    IN  IF year \notin CompiledYears
        THEN [threw |-> TRUE, found |-> FALSE, cache |-> cache]
        ELSE IF key \in DOMAIN cache
        THEN [threw |-> FALSE, found |-> TRUE, rules |-> cache[key], cache |-> cache]
        ELSE IF state \notin DOMAIN compiled2026
        THEN [threw |-> FALSE, found |-> FALSE, cache |-> cache]
        ELSE LET fromCompiled == compiled2026[state]
             IN  IF normalizeState(fromCompiled.state) # state
                    \/ fromCompiled.year # year
                 THEN [threw |-> TRUE, found |-> FALSE, cache |-> cache]
                 ELSE [threw |-> FALSE, found |-> TRUE, rules |-> fromCompiled,
                       cache |-> (key :> fromCompiled) @@ cache]

\* a * b = q * c + r with 0 <= r < c, one bit of b at a time, for a, b >= 0 and c > 0
RECURSIVE QuotientRem(_, _, _)
QuotientRem(a, b, c) ==
    IF b = 0 THEN [q |-> 0, r |-> 0]
    ELSE LET h == QuotientRem(a, b \div 2, c)
             t == 2 * h.r + (b % 2) * (a % c)
         IN  [q |-> 2 * h.q + (b % 2) * (a \div c) + (t \div c), r |-> t % c]

\* tax / taxableBase as a rate over RateDen, unrounded to the precision of a rate
ExactRate(tax, taxableBase) ==
    LET h == QuotientRem(tax, RateDen, taxableBase)
    IN  h.q + (IF 2 * h.r >= taxableBase THEN 1 ELSE 0)

\* round2(tax / taxableBase): Math.round(100 * tax / taxableBase) / 100, as a rate
\* over RateDen
RoundedRate(tax, taxableBase) ==
    LET h == QuotientRem(tax, 100, taxableBase)
    IN  (RateDen \div 100) * (h.q + (IF 2 * h.r >= taxableBase THEN 1 ELSE 0))

\* effectiveRate: taxableBase > 0 ? round2(tax / taxableBase) : 0
WithEffectiveRate(result, taxableBase) ==
    result @@ [effectiveRate |->
                  IF taxableBase > 0 THEN RoundedRate(result.tax, taxableBase) ELSE 0]

NoTaxResult(taxableBase) ==
    [threw |-> FALSE, hasIncomeTax |-> FALSE, taxableBase |-> round2(taxableBase),
     tax |-> 0, usedBrackets |-> "none", effectiveRate |-> 0]

IsFlat(rules) == rules.taxType = "flat" /\ rules.flatRate # Null

FlatResult(rules, taxableBase) ==
    WithEffectiveRate(
        [threw |-> FALSE, hasIncomeTax |-> TRUE, taxableBase |-> round2(taxableBase),
         tax |-> round2(MulRate(taxableBase, rules.flatRate)), usedBrackets |-> "flat"],
        taxableBase)

\* calcStateTax(input): taxableIncome is before the state's deduction and exemption
calcStateTax(input, cache) ==
    LET state == normalizeState(input.state)
        filingStatus == input.filingStatus
        taxableIncome == clamp0(input.taxableIncome)
        loaded == loadStateRules(input.year, state, cache)
    IN  IF state \in NO_INCOME_TAX_STATES
        THEN [result |-> NoTaxResult(taxableIncome), cache |-> cache]
        ELSE IF loaded.threw THEN [result |-> Threw("rules not compiled"), cache |-> loaded.cache]
        ELSE IF ~loaded.found THEN [result |-> Threw("rules not available"), cache |-> loaded.cache]
        ELSE LET rules == loaded.rules
                 standardDeduction ==
                     IF filingStatus \in DOMAIN rules.standardDeduction
                     THEN rules.standardDeduction[filingStatus] ELSE 0
                 personalExemption ==
                     IF filingStatus \in DOMAIN rules.personalExemption
                     THEN rules.personalExemption[filingStatus] ELSE 0
                 taxableBase == clamp0(taxableIncome - standardDeduction - personalExemption)
             IN  IF ~rules.hasIncomeTax
                 THEN [result |-> NoTaxResult(taxableIncome), cache |-> loaded.cache]
                 ELSE IF IsFlat(rules)
                 THEN [result |-> FlatResult(rules, taxableBase), cache |-> loaded.cache]
                 ELSE IF filingStatus \notin DOMAIN rules.brackets
                         \/ Len(rules.brackets[filingStatus]) = 0
                 THEN [result |-> Threw("missing brackets"), cache |-> loaded.cache]
                 ELSE [result |->
                          WithEffectiveRate(
                              [threw |-> FALSE, hasIncomeTax |-> TRUE,
                               taxableBase |-> round2(taxableBase),
                               tax |-> applyBrackets(taxableBase,
                                                     rules.brackets[filingStatus]).tax,
                               usedBrackets |-> filingStatus],
                              taxableBase),
                       cache |-> loaded.cache]

\* rules.brackets?.[filingStatus] ?? rules.brackets?.single ?? []
BracketsOrSingle(rules, filingStatus) ==
    IF filingStatus \in DOMAIN rules.brackets
    THEN [table |-> rules.brackets[filingStatus], of |-> filingStatus]
    ELSE IF "single" \in DOMAIN rules.brackets
    THEN [table |-> rules.brackets["single"], of |-> "single"]
    ELSE [table |-> <<>>, of |-> "none"]

\* calcStateTaxFromTaxableBase(input): taxableBase is already net of deductions
calcStateTaxFromTaxableBase(input, cache) ==
    LET state == normalizeState(input.state)
        filingStatus == input.filingStatus
        taxableBase == clamp0(input.taxableBase)
        loaded == loadStateRules(input.year, state, cache)
    IN  IF state \in NO_INCOME_TAX_STATES
        THEN [result |-> NoTaxResult(taxableBase), cache |-> cache]
        ELSE IF loaded.threw THEN [result |-> Threw("rules not compiled"), cache |-> loaded.cache]
        ELSE IF ~loaded.found THEN [result |-> Threw("rules not available"), cache |-> loaded.cache]
        ELSE LET rules == loaded.rules
                 picked == BracketsOrSingle(rules, filingStatus)
             IN  IF ~rules.hasIncomeTax
                 THEN [result |-> NoTaxResult(taxableBase), cache |-> loaded.cache]
                 ELSE IF IsFlat(rules)
                 THEN [result |-> FlatResult(rules, taxableBase), cache |-> loaded.cache]
                 ELSE [result |->
                          WithEffectiveRate(
                              [threw |-> FALSE, hasIncomeTax |-> TRUE,
                               taxableBase |-> round2(taxableBase),
                               tax |-> round2(StateBaseLoop(picked.table, 1, taxableBase,
                                                            0, 0)),
                               usedBrackets |-> picked.of],
                              taxableBase),
                       cache |-> loaded.cache]

(***************************************************************************)
(* Federal tax from brackets                                               *)
(***************************************************************************)
\* federalTaxEngine.ts calcFederalIncomeTax({filingStatus, incomeBase, taxYear})
calcFederalIncomeTax(filingStatus, incomeBase, taxYear) ==
    LET safeIncome == clamp0(incomeBase)
    IN  IF taxYear # Null /\ taxYear # 2026 THEN Threw("only 2026 supported")
        ELSE IF filingStatus \notin DOMAIN federal2026.standardDeduction
        THEN Threw("standard deduction not found")
        ELSE LET stdDed == federal2026.standardDeduction[filingStatus]
                 taxableIncome == clamp0(safeIncome - stdDed)
             IN  IF filingStatus \notin DOMAIN federal2026.brackets
                    \/ Len(federal2026.brackets[filingStatus]) = 0
                 THEN Threw("tax brackets not found")
                 ELSE [threw |-> FALSE,
                       tax |-> round2(FederalLoop(federal2026.brackets[filingStatus], 1,
                                                  taxableIncome, 0, 0)),
                       exactBase |-> taxableIncome,
                       taxableIncome |-> round2(taxableIncome),
                       standardDeduction |-> stdDed]

\* estimatedQuartely.ts calcTaxFromBrackets(taxableIncome, filingStatus)
calcTaxFromBrackets(taxableIncome, filingStatus) ==
    IF "brackets" \notin DOMAIN federal2026
       \/ filingStatus \notin DOMAIN federal2026.brackets
       \/ Len(federal2026.brackets[filingStatus]) = 0
    THEN 0
    ELSE round2(FederalLoop(federal2026.brackets[filingStatus], 1, taxableIncome, 0, 0))

(***************************************************************************)
(* Data files and inputs                                                   *)
(***************************************************************************)
\* simulationService.ts FEDERAL_BRACKETS_2026_SINGLE
FEDERAL_BRACKETS_2026_SINGLE ==
    << [upTo |-> Dollars(11600), rate |-> 1000], [upTo |-> Dollars(47150), rate |-> 1200],
       [upTo |-> Dollars(100525), rate |-> 2200], [upTo |-> Dollars(191950), rate |-> 2400],
       [upTo |-> Dollars(243725), rate |-> 3200], [upTo |-> Dollars(609350), rate |-> 3500],
       [upTo |-> Null, rate |-> 3700] >>

\* a three-bracket table: 11600 @ 10%, 47150 @ 12%, the rest @ 22%
ExampleTable ==
    << [upTo |-> Dollars(11600), rate |-> 1000], [upTo |-> Dollars(47150), rate |-> 1200],
       [upTo |-> Null, rate |-> 2200] >>

StateStandardDeduction == ("single" :> Dollars(5000))
StatePersonalExemption == ("single" :> Dollars(100))

RateChoices == {0, 525, 1000}
CapGrid == {Dollars(CapStep) * k : k \in 1..MaxCaps}

\* tables of n capped brackets with strictly ascending caps, then the unbounded one
TablesOfLen(n) ==
    { [k \in 1..(n + 1) |->
          [upTo |-> IF k <= n THEN Dollars(CapStep) * c[k] ELSE Null, rate |-> r[k]]] :
      c \in {f \in [1..n -> 1..MaxCaps] : \A i \in 1..n : \A j \in 1..n : i < j => f[i] < f[j]},
      r \in [1..(n + 1) -> RateChoices] }

GridTables == UNION {TablesOfLen(n) : n \in 0..MaxBrackets}
BracketTables == GridTables \cup {ExampleTable, FEDERAL_BRACKETS_2026_SINGLE}

\* the finite caps of a table
CapsOf(T) == {T[k].upTo : k \in 1..Len(T)} \ {Null}

\* taxable bases around every cap of the table, and a few others
BasesFor(T) ==
    {0, 7, 1234567, Dollars(50000)}
    \cup UNION {{c - 1, c, c + 1, c + 333, c + Dollars(1)} : c \in CapsOf(T)}

StateRules(code, has, type, flat, tables) ==
    [state |-> code, year |-> 2026, hasIncomeTax |-> has, taxType |-> type,
     flatRate |-> flat,
     standardDeduction |-> StateStandardDeduction,
     personalExemption |-> StatePersonalExemption,
     brackets |-> tables]

\* a compiled file with one state of each shape the importer writes:
\* CA every filing status, NY the single table only, OR an empty single table,
\* IL flat, NH and TX without income tax
CompiledFile(T) ==
    [code \in {"CA", "NY", "OR", "IL", "NH", "TX"} |->
        CASE code = "CA" -> StateRules(code, TRUE, "progressive", Null,
                                       [fs \in FilingStatuses |->
                                           IF fs = "single" THEN T ELSE ExampleTable])
          [] code = "NY" -> StateRules(code, TRUE, "progressive", Null, ("single" :> T))
          [] code = "OR" -> StateRules(code, TRUE, "progressive", Null, ("single" :> <<>>))
          [] code = "IL" -> StateRules(code, TRUE, "flat", 495, ("single" :> <<>>))
          [] OTHER -> StateRules(code, FALSE, "none", Null, ("single" :> <<>>))]

\* federal/2026.json; an incomplete file lacks the hoh table and has an empty mfs one
FederalFile(T, complete) ==
    [standardDeduction |-> [fs \in FilingStatuses |->
                               IF fs = "mfj" THEN Dollars(30000) ELSE Dollars(15000)],
     brackets |-> IF complete
                  THEN [fs \in FilingStatuses |-> T]
                  ELSE [fs \in {"single", "mfj", "mfs"} |-> IF fs = "mfs" THEN <<>> ELSE T]]

NoFederalConstants == [none |-> TRUE]
NoCompiledFile == [none |-> TRUE]
NoFederalFile == [none |-> TRUE]
NoBaseFile == [none |-> TRUE]
NoResult == [none |-> TRUE]
EmptyCache == [k \in {} |-> NoResult]

BracketFns == {"calcStateTaxFromTaxableBase", "calcStateTax", "calcProgressiveTax",
               "calcFederalIncomeTax", "calcTaxFromBrackets"}

\* what the callee takes off the amount before the brackets (a single filer):
\* the state's deduction and exemption, the federal standard deduction
ShiftFor(f) ==
    CASE f = "calcStateTax" -> Dollars(5100)
      [] f = "calcFederalIncomeTax" -> Dollars(15000)
      [] OTHER -> 0

\* calls on the table T, for the state CA and a single filer, whose taxable bases
\* are BasesFor(T)
TableCalls(T) ==
    {[fn |-> f, year |-> 2026, state |-> "CA", filingStatus |-> "single",
      amount |-> b + ShiftFor(f), brackets |-> T] : f \in BracketFns, b \in BasesFor(T)}

\* calls on every state, filing status and year, on the example table
ConfigCalls ==
    {[fn |-> f, year |-> y, state |-> s, filingStatus |-> fs,
      amount |-> Dollars(50000), brackets |-> ExampleTable] :
      f \in {"calcStateTaxFromTaxableBase", "calcStateTax"},
      y \in {2025, 2026}, s \in RawStates, fs \in FilingStatuses}
    \cup
    {[fn |-> f, year |-> y, state |-> "CA", filingStatus |-> fs,
      amount |-> Dollars(50000), brackets |-> ExampleTable] :
      f \in {"calcFederalIncomeTax", "calcTaxFromBrackets"},
      y \in {2025, 2026, Null}, fs \in FilingStatuses}

(***************************************************************************)
(* Specification of the bracket calculators                                *)
(***************************************************************************)
InitBrackets ==
    /\ \E T \in BracketTables, complete \in BOOLEAN :
          /\ compiled2026 = CompiledFile(T)
          /\ federal2026 = FederalFile(T, complete)
          /\ \/ complete /\ args \in TableCalls(T)
             \/ T = ExampleTable /\ args \in ConfigCalls
    /\ compiledBase2026 = NoBaseFile
    /\ federalConstants = NoFederalConstants
    /\ RULES_CACHE = EmptyCache
    /\ CACHE = EmptyCache
    /\ simulations = <<>>
    /\ res = NoResult
    /\ pc = "call"

\* what no function of the services writes: the imported files and the table
Data == <<compiled2026, compiledBase2026, federal2026, federalConstants, simulations>>

CalcStateTaxFromTaxableBase ==
    /\ pc = "call" /\ args.fn = "calcStateTaxFromTaxableBase"
    /\ LET r == calcStateTaxFromTaxableBase(
                    [year |-> args.year, state |-> args.state,
                     filingStatus |-> args.filingStatus, taxableBase |-> args.amount],
                    RULES_CACHE)
       IN  res' = r.result /\ RULES_CACHE' = r.cache
    /\ pc' = "done"
    /\ UNCHANGED <<Data, CACHE, args>>

CalcStateTax ==
    /\ pc = "call" /\ args.fn = "calcStateTax"
    /\ LET r == calcStateTax(
                    [year |-> args.year, state |-> args.state,
                     filingStatus |-> args.filingStatus, taxableIncome |-> args.amount],
                    RULES_CACHE)
       IN  res' = r.result /\ RULES_CACHE' = r.cache
    /\ pc' = "done"
    /\ UNCHANGED <<Data, CACHE, args>>

CalcProgressiveTax ==
    /\ pc = "call" /\ args.fn = "calcProgressiveTax"
    /\ res' = [threw |-> FALSE, tax |-> calcProgressiveTax(args.amount, args.brackets)]
    /\ pc' = "done"
    /\ UNCHANGED <<Data, RULES_CACHE, CACHE, args>>

CalcFederalIncomeTax ==
    /\ pc = "call" /\ args.fn = "calcFederalIncomeTax"
    /\ res' = calcFederalIncomeTax(args.filingStatus, args.amount, args.year)
    /\ pc' = "done"
    /\ UNCHANGED <<Data, RULES_CACHE, CACHE, args>>

CalcTaxFromBrackets ==
    /\ pc = "call" /\ args.fn = "calcTaxFromBrackets"
    /\ res' = [threw |-> FALSE, tax |-> calcTaxFromBrackets(args.amount, args.filingStatus)]
    /\ pc' = "done"
    /\ UNCHANGED <<Data, RULES_CACHE, CACHE, args>>

NextBrackets ==
    \/ CalcStateTaxFromTaxableBase
    \/ CalcStateTax
    \/ CalcProgressiveTax
    \/ CalcFederalIncomeTax
    \/ CalcTaxFromBrackets

SpecBrackets == InitBrackets /\ [][NextBrackets]_vars

(***************************************************************************)
(* Claims on the bracket calculators                                       *)
(***************************************************************************)
\* the previous finite cap of bracket k (0 before the first bracket)
PrevCap(T, k) == IF k = 1 THEN 0 ELSE T[k - 1].upTo

\* sum over the brackets k..Len(T) of clamp0(min(base, upTo or infinity) - prevCap) * rate
RECURSIVE SliceSum(_, _, _)
SliceSum(T, k, base) ==
    IF k > Len(T) THEN 0
    ELSE MulRate(clamp0((IF T[k].upTo = Null THEN base ELSE Min(base, T[k].upTo))
                        - PrevCap(T, k)), T[k].rate)
         + SliceSum(T, k + 1, base)

\* the call ran a progressive state whose table for the filing status exists
StateTableCall ==
    /\ args.year = 2026
    /\ normalizeState(args.state) \in DOMAIN compiled2026
    /\ normalizeState(args.state) \notin NO_INCOME_TAX_STATES
    /\ compiled2026[normalizeState(args.state)].taxType = "progressive"
    /\ args.filingStatus \in DOMAIN compiled2026[normalizeState(args.state)].brackets
    /\ Len(compiled2026[normalizeState(args.state)].brackets[args.filingStatus]) > 0

StateTable == compiled2026[normalizeState(args.state)].brackets[args.filingStatus]

FederalTableCall ==
    /\ args.year = 2026
    /\ args.filingStatus \in DOMAIN federal2026.brackets
    /\ Len(federal2026.brackets[args.filingStatus]) > 0

FederalTable == federal2026.brackets[args.filingStatus]
FederalBase == clamp0(args.amount - federal2026.standardDeduction[args.filingStatus])

\* C2: for every taxable base >= 0 and every ascending table ending in an unbounded
\* bracket, each bracket routine returns the sum over the brackets of
\* clamp0(min(base, upTo or infinity) - prevCap) * rate: the state loop and the
\* federal engine return that sum rounded to cents, calcProgressiveTax returns it as
\* it is; brackets 11600@10%, 47150@12%, rest@22% with base 50000 give 6053.
C2_BracketSum ==
    /\ SliceSum(ExampleTable, 1, Dollars(50000)) = Dollars(6053)
    /\ pc = "done" =>
        /\ (args.fn = "calcStateTaxFromTaxableBase" /\ StateTableCall)
              => /\ ~res.threw
                 /\ res.tax = round2(SliceSum(StateTable, 1, args.amount))
        /\ args.fn = "calcProgressiveTax"
              => res.tax = SliceSum(args.brackets, 1, args.amount)
        /\ (args.fn = "calcFederalIncomeTax" /\ FederalTableCall)
              => /\ ~res.threw
                 /\ res.tax = round2(SliceSum(FederalTable, 1, FederalBase))

\* the state loop has taxed 50000 on the example table: 6053
C2_Witness ==
    /\ pc = "done"
    /\ args.fn = "calcStateTaxFromTaxableBase" /\ StateTableCall
    /\ StateTable = ExampleTable
    /\ args.amount = Dollars(50000)
    /\ res.tax = Dollars(6053)

Abs(n) == IF n < 0 THEN 0 - n ELSE n

\* the tax the called state routine returns for another amount, all else equal
TaxOf(fn, amount) ==
    IF fn = "calcStateTax"
    THEN calcStateTax([year |-> args.year, state |-> args.state,
                       filingStatus |-> args.filingStatus, taxableIncome |-> amount],
                      RULES_CACHE).result.tax
    ELSE calcStateTaxFromTaxableBase(
                      [year |-> args.year, state |-> args.state,
                       filingStatus |-> args.filingStatus, taxableBase |-> amount],
                      RULES_CACHE).result.tax

\* the taxable base the called state routine puts through the brackets
BaseOfCall ==
    IF args.fn = "calcStateTax" THEN clamp0(args.amount - ShiftFor(args.fn)) ELSE args.amount

StateRoutineOnTable ==
    /\ pc = "done"
    /\ args.fn \in {"calcStateTax", "calcStateTaxFromTaxableBase"}
    /\ StateTableCall
    /\ args.filingStatus = "single"

\* C3: for a fixed table with non-negative rates the tax is monotone, tax(a) <= tax(b)
\* whenever 0 <= a <= b, and has no jump at a bracket boundary: one dollar past a
\* cap costs one dollar times the next bracket's rate, up to a cent of rounding.
C3_MonotoneNoJump ==
    StateRoutineOnTable =>
        /\ \A b \in BasesFor(StateTable) :
              b + ShiftFor(args.fn) <= args.amount
                  => TaxOf(args.fn, b + ShiftFor(args.fn)) <= res.tax
        /\ \A k \in 1..(Len(StateTable) - 1) :
              BaseOfCall = StateTable[k].upTo
                  => Abs(TaxOf(args.fn, args.amount + Dollars(1)) - res.tax
                         - MulRate(Dollars(1), StateTable[k + 1].rate)) <= 10

\* applyBrackets has taxed a base that sits on a cap whose next bracket has a
\* higher, positive rate; a lower base was taxed less
C3_Witness ==
    /\ StateRoutineOnTable
    /\ args.fn = "calcStateTax"
    /\ Len(StateTable) = 3
    /\ BaseOfCall = StateTable[2].upTo
    /\ StateTable[2].rate = 525 /\ StateTable[3].rate = 1000
    /\ TaxOf(args.fn, args.amount + Dollars(1)) > res.tax
    /\ TaxOf(args.fn, ShiftFor(args.fn) + 7) < res.tax

\* a jurisdiction that has income tax, is not flat-rate, and has no table, or an
\* empty one, for the requested filing status
StateTableMissing ==
    /\ args.year = 2026
    /\ normalizeState(args.state) \in DOMAIN compiled2026
    /\ normalizeState(args.state) \notin NO_INCOME_TAX_STATES
    /\ compiled2026[normalizeState(args.state)].hasIncomeTax
    /\ compiled2026[normalizeState(args.state)].taxType # "flat"
    /\ \/ args.filingStatus \notin DOMAIN compiled2026[normalizeState(args.state)].brackets
       \/ Len(compiled2026[normalizeState(args.state)].brackets[args.filingStatus]) = 0

FederalTableMissing ==
    \/ args.filingStatus \notin DOMAIN federal2026.brackets
    \/ Len(federal2026.brackets[args.filingStatus]) = 0

\* C4: when a jurisdiction that has income tax and is not flat-rate has no (or an
\* empty) bracket table for the requested filing status, every tax computation on
\* it (state tax from taxable base, state tax from income, federal tax from
\* brackets) fails with a configuration error; none returns a tax or uses another
\* filing status's table.
C4_MissingTableFails ==
    pc = "done" =>
        /\ (args.fn \in {"calcStateTaxFromTaxableBase", "calcStateTax"} /\ StateTableMissing)
              => res.threw
        /\ (args.fn = "calcTaxFromBrackets" /\ FederalTableMissing)
              => res.threw

(***************************************************************************)
(* stateBaseCalc.ts: values of the rule evaluator                          *)
(*                                                                         *)
(* evalExpr returns an unknown: a number (finite, NaN, or an infinity), a   *)
(* boolean, and getPath may hand back a string, null or undefined.  A value *)
(* is a record tagged with its kind.  Numbers of the rule files are         *)
(* integers, and mul is the integer product.                                *)
(***************************************************************************)
NumV(n) == [kind |-> "number", num |-> n]
BoolV(b) == [kind |-> "boolean", bool |-> b]
StrV(s) == [kind |-> "string", str |-> s]
InfV == [kind |-> "Infinity"]
NegInfV == [kind |-> "-Infinity"]
NaNV == [kind |-> "NaN"]
UndefinedV == [kind |-> "undefined"]
NullV == [kind |-> "null"]

\* v == null
IsNullish(v) == v.kind \in {"undefined", "null"}

\* Number(v || 0)
NumberOr0(v) ==
    CASE v.kind = "number" -> v
      [] v.kind = "boolean" -> NumV(IF v.bool THEN 1 ELSE 0)
      [] v.kind = "string" -> IF v.str = "" THEN NumV(0) ELSE NaNV
      [] v.kind \in {"Infinity", "-Infinity"} -> v
      [] OTHER -> NumV(0)

\* const toNum = (v) => (Number.isFinite(Number(v)) ? Number(v) : 0)
toNum(v) ==
    CASE v.kind = "number" -> v.num
      [] v.kind = "boolean" -> IF v.bool THEN 1 ELSE 0
      [] OTHER -> 0

\* const toBool = (v) => Boolean(v)
toBool(v) ==
    CASE v.kind = "number" -> v.num # 0
      [] v.kind = "boolean" -> v.bool
      [] v.kind = "string" -> v.str # ""
      [] v.kind \in {"Infinity", "-Infinity"} -> TRUE
      [] OTHER -> FALSE

\* const uniq = (arr) => Array.from(new Set(arr)): first occurrences, in order
RECURSIVE uniq(_)
uniq(arr) ==
    IF Len(arr) = 0 THEN <<>>
    ELSE LET front == uniq(SubSeq(arr, 1, Len(arr) - 1))
             last == arr[Len(arr)]
         IN  IF \E i \in 1..Len(front) : front[i] = last THEN front
             ELSE Append(front, last)

\* obj?.f ?? d
Get(obj, f, d) == IF f \in DOMAIN obj THEN obj[f] ELSE d
\* an object without properties
EmptyObject == <<>>

\* a property the object lacks reads as undefined
UndefinedExpr == [undefined |-> TRUE]
UndefinedPath == "undefined"
SubExpr(e, f) == IF f \in DOMAIN e THEN e[f] ELSE UndefinedExpr

\* String(path || "").trim()
TrimPath(path) ==
    CASE path = " stateAGI " -> "stateAGI"
      [] path = "  " -> ""
      [] path = UndefinedPath -> ""
      [] OTHER -> path

\* getPath(path, ctx)
getPath(path, ctx) ==
    LET p == TrimPath(path)
    IN  CASE p = "" -> UndefinedV
          [] p = "federalAGI" -> NumV(ctx.federalAGI)
          [] p = "federalTaxableIncome" ->
                IF "federalTaxableIncome" \in DOMAIN ctx
                THEN NumV(ctx.federalTaxableIncome) ELSE UndefinedV
          [] p = "stateAGI" ->
                IF "stateAGI" \in DOMAIN ctx THEN NumV(ctx.stateAGI) ELSE UndefinedV
          [] p = "filingStatus" -> StrV(ctx.filingStatus)
          [] OTHER -> IF p \in DOMAIN ctx.input THEN ctx.input[p] ELSE UndefinedV

\* left <op> right on numbers, one of which may be NaN
Compare(op, left, right) ==
    IF left.kind = "NaN" THEN op = "!="
    ELSE LET l == IF left.kind = "Infinity" THEN 1 ELSE IF left.kind = "-Infinity" THEN -1 ELSE 0
             a == IF l = 0 THEN left.num ELSE 0
         IN  CASE op = ">" -> l > 0 \/ (l = 0 /\ a > right)
               [] op = ">=" -> l > 0 \/ (l = 0 /\ a >= right)
               [] op = "<" -> l < 0 \/ (l = 0 /\ a < right)
               [] op = "<=" -> l < 0 \/ (l = 0 /\ a <= right)
               [] op = "==" -> l = 0 /\ a = right
               [] op = "!=" -> l # 0 \/ a # right

ComparisonOps == {">", ">=", "<", "<=", "==", "!="}

RECURSIVE Product(_)
Product(nums) == IF Len(nums) = 0 THEN 1 ELSE nums[1] * Product(Tail(nums))

RECURSIVE MinOf(_)
MinOf(nums) == IF Len(nums) = 1 THEN nums[1] ELSE Min(nums[1], MinOf(Tail(nums)))

RECURSIVE MaxOf(_)
MaxOf(nums) == IF Len(nums) = 1 THEN nums[1] ELSE Max(nums[1], MaxOf(Tail(nums)))

(***************************************************************************)
(* stateBaseCalc.ts: evalExpr.  The arrays warnings and missingInputs are   *)
(* passed by reference and pushed to; here they are threaded through, and   *)
(* an evaluation returns them with its value.  A TypeError (reading a       *)
(* property of undefined) ends the evaluation: threw is TRUE.  The value of *)
(* a call that the code binds to a const is the parameter of the operator   *)
(* that models the statements after it.                                     *)
(***************************************************************************)
EvalRet(v, warnings, missingInputs) ==
    [threw |-> FALSE, value |-> v, warnings |-> warnings, missingInputs |-> missingInputs]
EvalThrew(warnings, missingInputs) ==
    [threw |-> TRUE, value |-> UndefinedV, warnings |-> warnings,
     missingInputs |-> missingInputs]

\* default: warnings.push(`unsupported_op:${expr.op}`); return 0
Unsupported(expr, warnings, missingInputs) ==
    EvalRet(NumV(0),
            Append(warnings, <<"unsupported_op", IF "op" \in DOMAIN expr THEN expr.op
                                                 ELSE "undefined">>),
            missingInputs)

\* case "value": v = getPath(expr.path, ctx); if (v == null) push; return Number(v || 0)
ValueNode(path, v, warnings, missingInputs) ==
    EvalRet(NumberOr0(v), warnings,
            IF IsNullish(v) THEN Append(missingInputs, path) ELSE missingInputs)

\* nums.reduce(...), Math.min(...nums), Math.max(...nums) on the mapped arguments a
ArgsNode(op, a) ==
    IF a.threw THEN EvalThrew(a.warnings, a.missingInputs)
    ELSE EvalRet(CASE op = "mul" -> NumV(Product(a.nums))
                   [] op = "min" -> IF Len(a.nums) = 0 THEN InfV ELSE NumV(MinOf(a.nums))
                   [] op = "max" -> IF Len(a.nums) = 0 THEN NegInfV ELSE NumV(MaxOf(a.nums)),
                 a.warnings, a.missingInputs)

ArgsRet(threw, nums, r) ==
    [threw |-> threw, nums |-> nums, warnings |-> r.warnings,
     missingInputs |-> r.missingInputs]

RECURSIVE evalExpr(_, _, _, _)
RECURSIVE EvalArgs(_, _, _, _)
RECURSIVE EvalArg(_, _, _, _, _)
RECURSIVE EvalCases(_, _, _, _, _)
RECURSIVE EvalBranch(_, _, _, _)

\* expr.args.map((a) => toNum(evalExpr(a, ctx, warnings, missingInputs)))
\* acc holds the numbers mapped so far and the two arrays
EvalArgs(exprArgs, k, ctx, acc) ==
    IF k > Len(exprArgs) \/ acc.threw THEN acc
    ELSE EvalArg(exprArgs, k, ctx, acc,
                 evalExpr(exprArgs[k], ctx, acc.warnings, acc.missingInputs))

EvalArg(exprArgs, k, ctx, acc, r) ==
    EvalArgs(exprArgs, k + 1, ctx,
             ArgsRet(r.threw, IF r.threw THEN acc.nums ELSE Append(acc.nums, toNum(r.value)),
                     r))

\* for (const c of expr.cases ?? []) {...}; return evalExpr(expr.default, ...)
EvalCases(expr, k, ctx, warnings, missingInputs) ==
    IF k > Len(Get(expr, "cases", <<>>))
    THEN evalExpr(SubExpr(expr, "default"), ctx, warnings, missingInputs)
    ELSE EvalBranch(expr, k, ctx,
                    evalExpr(SubExpr(expr.cases[k], "when"), ctx, warnings, missingInputs))

\* the branch with a slip: the default is evaluated before the winning then
EvalBranchEager(expr, k, ctx, ok) ==
    IF ok.threw THEN ok
    ELSE IF toBool(ok.value)
    THEN evalExpr(SubExpr(expr.cases[k], "then"), ctx,
                  evalExpr(SubExpr(expr, "default"), ctx, ok.warnings,
                           ok.missingInputs).warnings,
                  evalExpr(SubExpr(expr, "default"), ctx, ok.warnings,
                           ok.missingInputs).missingInputs)
    ELSE EvalCases(expr, k + 1, ctx, ok.warnings, ok.missingInputs)

\* const ok = toBool(evalExpr(c.when, ...)); if (ok) return evalExpr(c.then, ...)
EvalBranch(expr, k, ctx, ok) ==
    IF ok.threw THEN ok
    ELSE IF toBool(ok.value)
    THEN evalExpr(SubExpr(expr.cases[k], "then"), ctx, ok.warnings, ok.missingInputs)
    ELSE EvalCases(expr, k + 1, ctx, ok.warnings, ok.missingInputs)

evalExpr(expr, ctx, warnings, missingInputs) ==
    IF "undefined" \in DOMAIN expr
    THEN EvalThrew(warnings, missingInputs)     \* expr.op of undefined
    ELSE
    LET op == IF "op" \in DOMAIN expr THEN expr.op ELSE "undefined"
        path == IF "path" \in DOMAIN expr THEN expr.path ELSE UndefinedPath
        value == IF "value" \in DOMAIN expr THEN expr.value ELSE 0
    IN  CASE op = "constant" -> EvalRet(NumV(value), warnings, missingInputs)
          [] op = "value" -> ValueNode(path, getPath(path, ctx), warnings, missingInputs)
          [] op \in ComparisonOps ->
                EvalRet(BoolV(Compare(op, NumberOr0(getPath(path, ctx)), value)),
                        warnings, missingInputs)
          [] op \in {"mul", "min", "max"} ->
                IF "args" \notin DOMAIN expr
                THEN EvalThrew(warnings, missingInputs)     \* expr.args.map of undefined
                ELSE ArgsNode(op, EvalArgs(expr.args, 1, ctx,
                                           ArgsRet(FALSE, <<>>,
                                                   EvalRet(NumV(0), warnings, missingInputs))))
          [] op = "case" -> EvalCases(expr, 1, ctx, warnings, missingInputs)
          [] OTHER -> Unsupported(expr, warnings, missingInputs)

(***************************************************************************)
(* stateBaseCalc.ts: rules, conformity and deductions                      *)
(***************************************************************************)
RuleRet(applied, amount, r) ==
    [threw |-> FALSE, applied |-> applied, amount |-> amount, warnings |-> r.warnings,
     missingInputs |-> r.missingInputs]
RuleThrew(r) ==
    [threw |-> TRUE, applied |-> FALSE, amount |-> 0, warnings |-> r.warnings,
     missingInputs |-> r.missingInputs]

\* for (const req of rule.requires ?? []) if (getPath(req, ctx) == null) missingInputs.push(req)
RECURSIVE TrackRequires(_, _, _, _)
TrackRequires(requires, k, ctx, missingInputs) ==
    IF k > Len(requires) THEN missingInputs
    ELSE TrackRequires(requires, k + 1, ctx,
                       IF IsNullish(getPath(requires[k], ctx))
                       THEN Append(missingInputs, requires[k]) ELSE missingInputs)

\* const amt = toNum(evalExpr(amountExpr, ...)); return {applied: true, amount: clamp0(amt)}
RuleAmount(a) ==
    IF a.threw THEN RuleThrew(a) ELSE RuleRet(TRUE, clamp0(toNum(a.value)), a)

\* w is the evaluation of rule.when (true when the rule has none)
RuleWhen(rule, ctx, w) ==
    IF w.threw THEN RuleThrew(w)
    ELSE IF ~toBool(w.value) THEN RuleRet(FALSE, 0, w)
    ELSE IF "amount" \notin DOMAIN rule THEN RuleRet(FALSE, 0, w)
    ELSE RuleAmount(evalExpr(rule.amount, ctx, w.warnings, w.missingInputs))

\* evalRule with a slip: enabled and status are never looked at
evalRuleRegardless(rule, ctx, warnings, missingInputs) ==
    RuleWhen(rule, ctx,
             IF "when" \in DOMAIN rule
             THEN evalExpr(rule.when, ctx, warnings,
                           TrackRequires(Get(rule, "requires", <<>>), 1, ctx, missingInputs))
             ELSE EvalRet(BoolV(TRUE), warnings,
                          TrackRequires(Get(rule, "requires", <<>>), 1, ctx, missingInputs)))

evalRule(rule, ctx, warnings, missingInputs) ==
    IF Get(rule, "enabled", TRUE) = FALSE
    THEN RuleRet(FALSE, 0, [warnings |-> warnings, missingInputs |-> missingInputs])
    ELSE IF Get(rule, "status", "ok") = "needs_detail"
    THEN RuleRet(FALSE, 0, [warnings |-> Append(warnings, <<"rule_needs_detail", rule.id>>),
                            missingInputs |-> missingInputs])
    ELSE RuleWhen(rule, ctx,
             IF "when" \in DOMAIN rule
             THEN evalExpr(rule.when, ctx, warnings,
                           TrackRequires(Get(rule, "requires", <<>>), 1, ctx, missingInputs))
             ELSE EvalRet(BoolV(TRUE), warnings,
                          TrackRequires(Get(rule, "requires", <<>>), 1, ctx, missingInputs)))

\* if (!r.applied) continue; total += r.amount; applied.push({id, kind, amount})
\* sign is -1 where the applied entry records -r.amount
Accumulate(acc, rule, sign, r) ==
    [threw |-> r.threw,
     total |-> acc.total + r.amount,
     applied |-> IF r.applied
                 THEN Append(acc.applied, [id |-> rule.id, kind |-> rule.kind,
                                           amount |-> sign * r.amount])
                 ELSE acc.applied,
     warnings |-> r.warnings,
     missingInputs |-> r.missingInputs]

\* for (const rule of rules) { const r = evalRule(rule, evalCtx, warnings, missingInputs); ... }
RECURSIVE ApplyRules(_, _, _, _, _)
ApplyRules(rules, k, ctx, sign, acc) ==
    IF k > Len(rules) \/ acc.threw THEN acc
    ELSE ApplyRules(rules, k + 1, ctx, sign,
                    Accumulate(acc, rules[k], sign,
                               evalRule(rules[k], ctx, acc.warnings, acc.missingInputs)))

ApplyThrew == [threw |-> TRUE]

\* return { value, applied, warnings: uniq(warnings), missingInputs: uniq(missingInputs) }
ApplyRet(value, acc) ==
    IF acc.threw THEN ApplyThrew
    ELSE [threw |-> FALSE, value |-> clamp0(value), applied |-> acc.applied,
          warnings |-> uniq(acc.warnings), missingInputs |-> uniq(acc.missingInputs)]

\* after the subtractions loop: value = clamp0(base + totalAdd - totalSub)
ConformitySubtracted(base, totalAdd, sub) == ApplyRet(base + totalAdd - sub.total, sub)

\* the subtractions loop with a slip: stateAGI is left at base
ConformityAddedStale(stateRules, evalCtx, base, add) ==
    ConformitySubtracted(base, add.total,
        ApplyRules(Get(Get(stateRules, "adjustments", EmptyObject), "subtractions", <<>>),
                   1, evalCtx, -1, [add EXCEPT !.total = 0]))

\* after the additions loop: evalCtx.stateAGI = base + totalAdd; the subtractions loop
ConformityAdded(stateRules, evalCtx, base, add) ==
    ConformitySubtracted(base, add.total,
        ApplyRules(Get(Get(stateRules, "adjustments", EmptyObject), "subtractions", <<>>),
                   1, [evalCtx EXCEPT !.stateAGI = base + add.total], -1,
                   [add EXCEPT !.total = 0]))

\* const evalCtx = { ...ctx, federalAGI, stateAGI: base }
EvalCtxOf(ctx, federalAGI, base) ==
    [f \in DOMAIN ctx \cup {"federalAGI", "stateAGI"} |->
        CASE f = "federalAGI" -> federalAGI
          [] f = "stateAGI" -> base
          [] OTHER -> ctx[f]]

\* the starting point is settled; the additions loop
ConformityFrom(federalAGI, stateRules, ctx, base, warnings) ==
    ConformityAdded(stateRules, EvalCtxOf(ctx, federalAGI, base), base,
        ApplyRules(Get(Get(stateRules, "adjustments", EmptyObject), "additions", <<>>),
                   1, EvalCtxOf(ctx, federalAGI, base), 1,
                   [threw |-> FALSE, total |-> 0, applied |-> <<>>,
                    warnings |-> warnings, missingInputs |-> <<>>]))

\* let base = Number(federalAGI || 0), or ctx.federalTaxableIncome when the rules start
\* from it and the context has it
StartingBase(federalAGI, stateRules, ctx) ==
    IF Get(Get(stateRules, "startingPoint", EmptyObject), "type", "federalAGI")
          = "federalTaxableIncome"
       /\ "federalTaxableIncome" \in DOMAIN ctx
    THEN ctx.federalTaxableIncome ELSE federalAGI

applyStateConformity(federalAGI, stateRules, ctx) ==
    LET baseType == Get(Get(stateRules, "startingPoint", EmptyObject), "type", "federalAGI")
        useFti == baseType = "federalTaxableIncome" /\ "federalTaxableIncome" \in DOMAIN ctx
    IN  ConformityFrom(federalAGI, stateRules, ctx,
            StartingBase(federalAGI, stateRules, ctx),
            CASE baseType = "federalTaxableIncome" /\ ~useFti ->
                    <<"startingPoint.federalTaxableIncome_missing_using_federalAGI">>
              [] baseType = "stateDefined" ->
                    <<"startingPoint.stateDefined_fallback_to_federalAGI">>
              [] OTHER -> <<>>)

\* the amount of a block with a slip: the filing status is never looked at
DeductionAmountDefault(stateRules, block, filingStatus) ==
    Get(Get(Get(stateRules, "deductions", EmptyObject), block, EmptyObject), "default", 0)

\* block?.byStatus?.[filingStatus] ?? block?.default ?? 0
DeductionAmount(stateRules, block, filingStatus) ==
    LET b == Get(Get(stateRules, "deductions", EmptyObject), block, EmptyObject)
        byStatus == Get(b, "byStatus", EmptyObject)
    IN  IF filingStatus \in DOMAIN byStatus THEN byStatus[filingStatus]
        ELSE Get(b, "default", 0)

\* deductionTotal = std + pe; if (std) applied.push(...); if (pe) applied.push(...)
DeductionsStart(std, pe) ==
    [threw |-> FALSE, total |-> std + pe,
     applied |->
        (IF std # 0 THEN <<[id |-> "STD_DEDUCTION", kind |-> "deduction", amount |-> std]>>
         ELSE <<>>)
        \o (IF pe # 0
            THEN <<[id |-> "PERSONAL_EXEMPTION", kind |-> "deduction", amount |-> pe]>>
            ELSE <<>>),
     warnings |-> <<>>, missingInputs |-> <<>>]

\* after the itemized loop (every applied entry is pushed with kind "deduction")
DeductionsItemized(stateAGI, item) ==
    ApplyRet(stateAGI - item.total,
             [item EXCEPT !.applied = [i \in 1..Len(item.applied) |->
                                         [item.applied[i] EXCEPT !.kind = "deduction"]]])

applyStateDeductions(stateAGI, stateRules, ctx) ==
    LET start == DeductionsStart(
                     DeductionAmount(stateRules, "standardDeduction", ctx.filingStatus),
                     DeductionAmount(stateRules, "personalExemption", ctx.filingStatus))
    IN  DeductionsItemized(stateAGI,
            IF Get(ctx, "useItemized", FALSE)
            THEN ApplyRules(Get(Get(stateRules, "deductions", EmptyObject),
                                "itemizedRules", <<>>),
                            1,
                            [f \in DOMAIN ctx \cup {"stateAGI"} |->
                                IF f = "stateAGI" THEN stateAGI ELSE ctx[f]],
                            1, start)
            ELSE start)

\* const REGISTRY = { 2026: compiledBase2026 }
REGISTRY_YEARS == {2026}

\* loadStateBaseRules(year, stateRaw): [threw, rules, cache]
loadStateBaseRules(year, stateRaw, cache) ==
    LET state == normalizeState(stateRaw)
        key == CacheKey(year, state)
    IN  IF year \notin REGISTRY_YEARS \/ "states" \notin DOMAIN compiledBase2026
        THEN [threw |-> TRUE, error |-> "State base rules not available for year",
              cache |-> cache]
        ELSE IF key \in DOMAIN cache
        THEN [threw |-> FALSE, rules |-> cache[key], cache |-> cache]
        ELSE IF state \notin DOMAIN compiledBase2026.states
        THEN [threw |-> TRUE, error |-> "State base rules missing", cache |-> cache]
        ELSE [threw |-> FALSE, rules |-> compiledBase2026.states[state],
              cache |-> (key :> compiledBase2026.states[state]) @@ cache]

\* the context both calls of computeTaxableStateIncome pass
TaxableCtx(a) ==
    [year |-> a.year, state |-> a.state, filingStatus |-> a.filingStatus,
     input |-> Get(a, "input", EmptyObject)]

\* return { stateAGI, taxableStateIncome, warnings, missingInputs }
TaxableDeducted(cache, conformity, deductions) ==
    IF deductions.threw THEN [threw |-> TRUE, error |-> "TypeError", cache |-> cache]
    ELSE [threw |-> FALSE,
          stateAGI |-> conformity.value,
          taxableStateIncome |-> deductions.value,
          warnings |-> conformity.warnings \o deductions.warnings,
          missingInputs |-> uniq(conformity.missingInputs \o deductions.missingInputs),
          cache |-> cache]

\* const deductions = applyStateDeductions(conformity.value, baseRules, {...})
TaxableConformed(a, loaded, conformity) ==
    IF conformity.threw THEN [threw |-> TRUE, error |-> "TypeError", cache |-> loaded.cache]
    ELSE TaxableDeducted(loaded.cache, conformity,
             applyStateDeductions(conformity.value, loaded.rules,
                 TaxableCtx(a) @@ [federalAGI |-> a.federalAGI,
                                   useItemized |-> Get(a, "useItemized", FALSE)]))

\* const conformity = applyStateConformity(federalAGI, baseRules, {...})
TaxableLoaded(a, loaded) ==
    IF loaded.threw THEN [threw |-> TRUE, error |-> loaded.error, cache |-> loaded.cache]
    ELSE TaxableConformed(a, loaded,
             applyStateConformity(a.federalAGI, loaded.rules, TaxableCtx(a)))

\* simulationService.ts computeTaxableStateIncome: its result and the cache after it
computeTaxableStateIncome(a, cache) ==
    TaxableLoaded(a, loadStateBaseRules(a.year, a.state, cache))

(***************************************************************************)
(* stateBaseCalc.ts: the caller's objects.  The rules and the context are   *)
(* passed by reference.  The functions assign to one object property only,  *)
(* evalCtx.stateAGI in applyStateConformity; the arrays they push to are     *)
(* their own.  The objects of a call are kept by name, and the caller sees   *)
(* ctx and stateRules as the call leaves them.                               *)
(***************************************************************************)
\* the object named evalCtx, were it the caller's ctx with the properties assigned
EvalCtxObjectAliased(ctx, federalAGI, base) ==
    [name |-> "ctx", props |-> EvalCtxOf(ctx, federalAGI, base)]

\* const evalCtx = { ...ctx, federalAGI, stateAGI: base }: a new object
EvalCtxObject(ctx, federalAGI, base) ==
    [name |-> "evalCtx", props |-> EvalCtxOf(ctx, federalAGI, base)]

\* the objects once evalCtx is made
ObjectsWith(obj, stateRules, ctx) ==
    (obj.name :> obj.props) @@ [ctx |-> ctx, stateRules |-> stateRules]

\* evalCtx.stateAGI = base + totalAdd, reached unless the additions loop threw
ConformityWrites(objects, name, base, add) ==
    IF add.threw THEN objects
    ELSE [objects EXCEPT ![name].stateAGI = base + add.total]

\* the objects after applyStateConformity(federalAGI, stateRules, ctx)
ConformityObjects(federalAGI, stateRules, ctx) ==
    LET base == StartingBase(federalAGI, stateRules, ctx)
        obj == EvalCtxObject(ctx, federalAGI, base)
    IN  ConformityWrites(ObjectsWith(obj, stateRules, ctx), obj.name, base,
            ApplyRules(Get(Get(stateRules, "adjustments", EmptyObject), "additions", <<>>),
                       1, obj.props, 1,
                       [threw |-> FALSE, total |-> 0, applied |-> <<>>,
                        warnings |-> <<>>, missingInputs |-> <<>>]))

\* the objects after applyStateDeductions(stateAGI, stateRules, ctx): evalCtx is made
\* for the itemized rules only, and nothing is assigned to it
DeductionsObjects(stateAGI, stateRules, ctx) ==
    IF Get(ctx, "useItemized", FALSE)
    THEN ObjectsWith(EvalCtxObject(ctx, ctx.federalAGI, stateAGI), stateRules, ctx)
    ELSE [ctx |-> ctx, stateRules |-> stateRules]

\* the caller's arguments after a call that leaves the objects
ArgsAfter(objects) == [args EXCEPT !.ctx = objects.ctx, !.stateRules = objects.stateRules]

(***************************************************************************)
(* Inputs of the rule evaluator                                            *)
(***************************************************************************)
\* mul, min and max take at most MaxArgs arguments, a rule list has at most
\* MaxRules rules
MaxArgs == 2
MaxRules == 2
SeqsUpTo(S, n) == UNION {[1..k -> S] : k \in 0..n}

KnownOps == {"constant", "value", "mul", "min", "max", "case"} \cup ComparisonOps

\* expressions without sub-expressions, well-formed
Atoms ==
    {[op |-> "constant", value |-> v] : v \in {0, 3, -2}}
    \cup {[op |-> "value", path |-> p] : p \in {"stateAGI", "wages", "bonus"}}
    \cup {[op |-> ">", path |-> "stateAGI", value |-> 5],
          [op |-> "==", path |-> "bonus", value |-> 0]}

\* nodes of an op the evaluator does not know, and nodes without an op
UnknownNodes ==
    {[op |-> "pow", args |-> <<[op |-> "constant", value |-> 3]>>],
     [op |-> "add"], [value |-> 3]}

\* nodes of a known op that lack args, cases or default
LackingNodes ==
    {[op |-> o] : o \in {"mul", "min", "max", "case"}}
    \cup {[op |-> "case", cases |-> <<>>],
          [op |-> "case", cases |-> <<[when |-> [op |-> "constant", value |-> 0],
                                       then |-> [op |-> "constant", value |-> 3]]>>],
          [op |-> "case", cases |-> <<[then |-> [op |-> "constant", value |-> 3]]>>,
                          default |-> [op |-> "constant", value |-> 3]],
          [op |-> "case", cases |-> <<[when |-> [op |-> "constant", value |-> 3]]>>,
                          default |-> [op |-> "constant", value |-> 3]]}

Leaves ==
    Atoms \cup UnknownNodes \cup LackingNodes
    \cup {[op |-> "constant"], [op |-> "value"]}
    \cup {[op |-> "value", path |-> p] :
             p \in {"federalAGI", " stateAGI ", "federalTaxableIncome", "filingStatus",
                    "", "  "}}
    \cup {[op |-> o, path |-> c[1], value |-> c[2]] :
             o \in ComparisonOps,
             c \in {<<"stateAGI", 5>>, <<"bonus", 0>>, <<"filingStatus", 0>>}}

Branches == {[when |-> w, then |-> t] : w \in Atoms, t \in Atoms}

\* one level of nesting over the atoms, and the unknown and lacking nodes as
\* arguments and branches
Exprs ==
    Leaves
    \cup {[op |-> o, args |-> a] : o \in {"mul", "min", "max"}, a \in SeqsUpTo(Atoms, MaxArgs)}
    \cup {[op |-> "mul", args |-> <<a, b>>] : a \in Atoms, b \in UnknownNodes \cup LackingNodes}
    \cup {[op |-> "case", cases |-> <<b>>, default |-> d] : b \in Branches, d \in Atoms}
    \cup {[op |-> "case", cases |-> <<b, c>>, default |-> [op |-> "value", path |-> "tips"]] :
             b \in Branches, c \in {d \in Branches : d.then = [op |-> "value", path |-> "wages"]}}
    \cup {[op |-> "case", default |-> d] : d \in Atoms \cup UnknownNodes}
    \cup {[op |-> "case", cases |-> <<[when |-> w, then |-> [op |-> "constant", value |-> 3]]>>,
           default |-> [op |-> "constant", value |-> 0]] : w \in UnknownNodes \cup LackingNodes}

\* the caller's facts: absent, a number, null, a string
Inputs ==
    {EmptyObject, [wages |-> NumV(4)], [wages |-> NullV, bonus |-> StrV("yes")],
     [wages |-> NumV(0), bonus |-> NumV(9)]}

EvalContexts ==
    {[year |-> 2026, state |-> "CA", filingStatus |-> "single", input |-> i,
      federalAGI |-> 7, stateAGI |-> s] : i \in Inputs, s \in {0, 7}}
    \cup {[year |-> 2026, state |-> "CA", filingStatus |-> "mfj", input |-> EmptyObject,
           federalAGI |-> 7, federalTaxableIncome |-> 6, stateAGI |-> 7]}

ExprCalls ==
    {[fn |-> "evalExpr", expr |-> e, ctx |-> c, warnings |-> w, missingInputs |-> w] :
        e \in Exprs, c \in EvalContexts, w \in {<<>>}}

(***************************************************************************)
(* Inputs of the rules, conformity and deductions                          *)
(***************************************************************************)
Const(v) == [op |-> "constant", value |-> v]
ValueOf(p) == [op |-> "value", path |-> p]

\* every combination of the optional properties of a rule
Rules ==
    {[id |-> "r", kind |-> "addition", affects |-> "stateAGI"] @@ e @@ s @@ q @@ w @@ a :
        e \in {EmptyObject, [enabled |-> FALSE], [enabled |-> TRUE]},
        s \in {EmptyObject, [status |-> "ok"], [status |-> "needs_detail"]},
        q \in {EmptyObject, [requires |-> <<"wages", "stateAGI", "tips">>]},
        w \in {EmptyObject, [when |-> [op |-> ">", path |-> "stateAGI", value |-> 5]],
               [when |-> ValueOf("wages")], [when |-> [op |-> "min", args |-> <<>>]],
               [when |-> [op |-> "max"]]},
        a \in {EmptyObject, [amount |-> Const(3)], [amount |-> Const(-2)],
               [amount |-> ValueOf("wages")], [amount |-> [op |-> "min", args |-> <<>>]],
               [amount |-> [op |-> "mul"]], [amount |-> [op |-> "pow"]]}}

RuleCalls ==
    {[fn |-> "evalRule", rule |-> r, ctx |-> c] : r \in Rules, c \in EvalContexts}

\* the rules of the rule lists: applying, skipped, clamped, conditional, throwing
ListRule(id, kind, rest) == [id |-> id, kind |-> kind, affects |-> "stateAGI"] @@ rest
ListRules(kind) ==
    {ListRule("plus3", kind, [amount |-> Const(3)]),
     ListRule("agi", kind, [amount |-> ValueOf("stateAGI")]),
     ListRule("off", kind, [enabled |-> FALSE, amount |-> Const(3)]),
     ListRule("detail", kind, [status |-> "needs_detail", amount |-> Const(3)]),
     ListRule("neg", kind, [amount |-> Const(-2)]),
     ListRule("cond", kind, [when |-> [op |-> ">", path |-> "stateAGI", value |-> 5],
                             amount |-> ValueOf("wages"), requires |-> <<"wages">>]),
     ListRule("pow", kind, [amount |-> [op |-> "pow"]]),
     ListRule("bad", kind, [amount |-> [op |-> "mul"]])}

StartingPoints ==
    {EmptyObject} \cup {[startingPoint |-> [type |-> t]] :
                           t \in {"federalAGI", "federalTaxableIncome", "stateDefined"}}

ConformityRules ==
    {[adjustments |-> [additions |-> a, subtractions |-> s]] :
        a \in SeqsUpTo(ListRules("addition"), MaxRules),
        s \in SeqsUpTo(ListRules("subtraction"), 1)}
    \cup {[adjustments |-> [additions |-> a, subtractions |-> s]] :
        a \in SeqsUpTo(ListRules("addition"), 1),
        s \in SeqsUpTo(ListRules("subtraction"), MaxRules)}
    \cup {sp @@ adj : sp \in StartingPoints,
                      adj \in {EmptyObject, [adjustments |-> EmptyObject],
                               [adjustments |-> [additions |-> <<ListRule("agi", "addition",
                                                     [amount |-> ValueOf("stateAGI")])>>]]}}

ConformityContexts ==
    {[year |-> 2026, state |-> "CA", filingStatus |-> "single", input |-> [wages |-> NumV(4)]],
     [year |-> 2026, state |-> "CA", filingStatus |-> "single", input |-> EmptyObject,
      federalTaxableIncome |-> 6]}

ConformityCalls ==
    {[fn |-> "applyStateConformity", federalAGI |-> 7, stateRules |-> r, ctx |-> c] :
        r \in ConformityRules, c \in ConformityContexts}

DeductionBlocks ==
    {EmptyObject, [default |-> 5], [default |-> 5, byStatus |-> [mfj |-> 9]],
     [byStatus |-> [single |-> 0, mfj |-> 9]]}

DeductionRules ==
    {[deductions |-> std @@ pe @@ it] :
        std \in {EmptyObject} \cup {[standardDeduction |-> b] : b \in DeductionBlocks},
        pe \in {EmptyObject} \cup {[personalExemption |-> b] : b \in DeductionBlocks},
        it \in {EmptyObject} \cup {[itemizedRules |-> r] :
                                      r \in SeqsUpTo(ListRules("deduction"), 1)}}
    \cup {[deductions |-> [standardDeduction |-> [default |-> 5], itemizedRules |-> r]] :
             r \in SeqsUpTo(ListRules("deduction"), MaxRules)}
    \cup {EmptyObject}

DeductionCalls ==
    {[fn |-> "applyStateDeductions", stateAGI |-> a, stateRules |-> r,
      ctx |-> [year |-> 2026, state |-> "CA", filingStatus |-> fs,
               input |-> [wages |-> NumV(4)], federalAGI |-> 7] @@ u] :
        a \in {0, 7, 20}, r \in DeductionRules, fs \in {"single", "mfj"},
        u \in {EmptyObject, [useItemized |-> TRUE]}}

\* a base rules file: CA with rules, NY with deductions only, TX empty
BaseFiles ==
    {[version |-> "1", states |-> [code \in {"CA", "NY", "TX"} |->
         CASE code = "CA" -> r
           [] code = "NY" -> [deductions |-> [standardDeduction |-> [default |-> 5]]]
           [] OTHER -> [meta |-> [hasIncomeTax |-> FALSE]]]] :
        r \in {[adjustments |-> [additions |-> a, subtractions |-> s],
                deductions |-> [standardDeduction |-> [default |-> 5],
                                personalExemption |-> [byStatus |-> [single |-> 1]]]] :
                  a \in SeqsUpTo(ListRules("addition"), 1),
                  s \in SeqsUpTo(ListRules("subtraction"), 1)}}
    \cup {[version |-> "1"]}

TaxableCalls ==
    {[fn |-> "computeTaxableStateIncome", year |-> y, state |-> s,
      filingStatus |-> "single", federalAGI |-> a] @@ i :
        y \in {2025, 2026}, s \in {"CA", "ca", " ny ", "TX", "ZZ"}, a \in {0, 20},
        i \in {EmptyObject, [input |-> [wages |-> NumV(4)]]}}

(***************************************************************************)
(* Specification of the state base calculator                              *)
(***************************************************************************)
InitStateBase ==
    /\ \/ /\ args \in ExprCalls \cup RuleCalls \cup ConformityCalls \cup DeductionCalls
          /\ compiledBase2026 = [version |-> "1"]
       \/ /\ args \in TaxableCalls
          /\ compiledBase2026 \in BaseFiles
    /\ compiled2026 = NoCompiledFile
    /\ federal2026 = NoFederalFile
    /\ federalConstants = NoFederalConstants
    /\ RULES_CACHE = EmptyCache
    /\ CACHE = EmptyCache
    /\ simulations = <<>>
    /\ res = NoResult
    /\ pc = "call"

EvalExpr ==
    /\ pc = "call" /\ args.fn = "evalExpr"
    /\ res' = evalExpr(args.expr, args.ctx, args.warnings, args.missingInputs)
    /\ pc' = "done"
    /\ UNCHANGED <<Data, RULES_CACHE, CACHE, args>>

EvalRule ==
    /\ pc = "call" /\ args.fn = "evalRule"
    /\ res' = evalRule(args.rule, args.ctx, <<>>, <<>>)
    /\ pc' = "done"
    /\ UNCHANGED <<Data, RULES_CACHE, CACHE, args>>

ApplyStateConformity ==
    /\ pc = "call" /\ args.fn = "applyStateConformity"
    /\ res' = applyStateConformity(args.federalAGI, args.stateRules, args.ctx)
    /\ args' = ArgsAfter(ConformityObjects(args.federalAGI, args.stateRules, args.ctx))
    /\ pc' = "done"
    /\ UNCHANGED <<Data, RULES_CACHE, CACHE>>

ApplyStateDeductions ==
    /\ pc = "call" /\ args.fn = "applyStateDeductions"
    /\ res' = applyStateDeductions(args.stateAGI, args.stateRules, args.ctx)
    /\ args' = ArgsAfter(DeductionsObjects(args.stateAGI, args.stateRules, args.ctx))
    /\ pc' = "done"
    /\ UNCHANGED <<Data, RULES_CACHE, CACHE>>

\* the caller calls once more with the same amount and the same objects, and keeps
\* both results
ApplyStateConformityAgain ==
    /\ pc = "done" /\ args.fn = "applyStateConformity"
    /\ res' = [first |-> res,
               second |-> applyStateConformity(args.federalAGI, args.stateRules, args.ctx)]
    /\ args' = ArgsAfter(ConformityObjects(args.federalAGI, args.stateRules, args.ctx))
    /\ pc' = "again"
    /\ UNCHANGED <<Data, RULES_CACHE, CACHE>>

ApplyStateDeductionsAgain ==
    /\ pc = "done" /\ args.fn = "applyStateDeductions"
    /\ res' = [first |-> res,
               second |-> applyStateDeductions(args.stateAGI, args.stateRules, args.ctx)]
    /\ args' = ArgsAfter(DeductionsObjects(args.stateAGI, args.stateRules, args.ctx))
    /\ pc' = "again"
    /\ UNCHANGED <<Data, RULES_CACHE, CACHE>>

ComputeTaxableStateIncome ==
    /\ pc = "call" /\ args.fn = "computeTaxableStateIncome"
    /\ LET r == computeTaxableStateIncome(args, CACHE)
       IN  /\ res' = [f \in DOMAIN r \ {"cache"} |-> r[f]]
           /\ CACHE' = r.cache
    /\ pc' = "done"
    /\ UNCHANGED <<Data, RULES_CACHE, args>>

NextStateBase ==
    \/ EvalExpr
    \/ EvalRule
    \/ ApplyStateConformity
    \/ ApplyStateDeductions
    \/ ApplyStateConformityAgain
    \/ ApplyStateDeductionsAgain
    \/ ComputeTaxableStateIncome

SpecStateBase == InitStateBase /\ [][NextStateBase]_vars

(***************************************************************************)
(* Claims on the rule-expression evaluator                                 *)
(***************************************************************************)
ExprEvaluated == pc = "done" /\ args.fn = "evalExpr"

\* the node's op is none of the ops evalExpr has a case for
UnsupportedNode(e) == "op" \notin DOMAIN e \/ e.op \notin KnownOps

\* a value node whose path getPath resolves to undefined or null
UnresolvableValue(e, ctx) ==
    /\ "op" \in DOMAIN e /\ e.op = "value"
    /\ IsNullish(getPath(IF "path" \in DOMAIN e THEN e.path ELSE UndefinedPath, ctx))

\* C10: expression evaluation is fail-soft: for every expression node and context,
\* also a node with an unknown op and a node of a known op lacking its args, cases
\* or default, evaluation completes without throwing; an unsupported node yields 0
\* and adds a warning; a value(path) with an unresolvable path yields 0 and adds
\* the path to missingInputs.
C10_EvalExprFailSoft ==
    ExprEvaluated =>
        /\ ~res.threw
        /\ UnsupportedNode(args.expr) =>
              /\ res.value = NumV(0)
              /\ Len(res.warnings) = Len(args.warnings) + 1
        /\ UnresolvableValue(args.expr, args.ctx) =>
              /\ res.value = NumV(0)
              /\ \E i \in 1..Len(res.missingInputs) :
                    res.missingInputs[i] = Get(args.expr, "path", UndefinedPath)

(***************************************************************************)
(* Self-employment tax: seTax.ts computeSelfEmploymentTax and               *)
(* estimatedQuartely.ts calcSelfEmploymentTax                               *)
(***************************************************************************)
\* ssTaxable with a slip: the wage base is not reduced by the W-2 wages
ssTaxableWholeBase(netEarnings, ssWageBase, w2Wages) ==
    Max(0, Min(netEarnings, ssWageBase))

\* const ssCapRemaining = Math.max(0, ssWageBase - w2Wages)
ssCapRemaining(ssWageBase, w2Wages) == Max(0, ssWageBase - w2Wages)

\* const ssTaxable = Math.max(0, Math.min(netEarnings, ssCapRemaining))
ssTaxable(netEarnings, ssWageBase, w2Wages) ==
    Max(0, Min(netEarnings, ssCapRemaining(ssWageBase, w2Wages)))

\* n * 0.5
Half(n) == MulRate(n, 5000)

\* the seTax block of federal_constants.json for the year, if any
SeTaxBlock(taxYear) ==
    IF taxYear \in DOMAIN federalConstants /\ "seTax" \in DOMAIN federalConstants[taxYear]
    THEN federalConstants[taxYear].seTax ELSE EmptyObject

\* seTax.ts computeSelfEmploymentTax, on the constants C it has found
SelfEmploymentTaxOn(C, p) ==
    LET netEarnings == MulRate(p.netProfit, C.seNetEarningsFactor)
        ssTax == MulRate(ssTaxable(netEarnings, C.ssWageBase, p.w2Wages), C.ssRate)
        medicareTax == MulRate(netEarnings, C.medicareRate)
        threshold == C.additionalMedicareThreshold[p.filingStatus]
        combinedEarned == p.w2Wages + netEarnings
        addlTaxable == Max(0, combinedEarned - threshold)
        additionalMedicareTax == MulRate(addlTaxable, C.additionalMedicareRate)
        seTax == ssTax + medicareTax
        deductibleHalf == Half(seTax)
        total == seTax + additionalMedicareTax
    IN  [threw |-> FALSE,
         taxYear |-> p.taxYear,
         filingStatus |-> p.filingStatus,
         netProfit |-> round2(p.netProfit),
         w2Wages |-> round2(p.w2Wages),
         netEarnings |-> round2(netEarnings),
         ssWageBase |-> C.ssWageBase,
         ssCapRemaining |-> round2(ssCapRemaining(C.ssWageBase, p.w2Wages)),
         ssTaxable |-> round2(ssTaxable(netEarnings, C.ssWageBase, p.w2Wages)),
         ssTax |-> round2(ssTax),
         medicareTax |-> round2(medicareTax),
         seTax |-> round2(seTax),
         deductibleHalf |-> round2(deductibleHalf),
         additionalMedicareThreshold |-> threshold,
         additionalMedicareTax |-> round2(additionalMedicareTax),
         total |-> round2(total)]

computeSelfEmploymentTax(p) ==
    IF SeTaxBlock(p.taxYear) = EmptyObject
    THEN Threw("SE tax constants not found for tax year")
    ELSE IF p.filingStatus \notin DOMAIN SeTaxBlock(p.taxYear).additionalMedicareThreshold
    THEN Threw("Missing additionalMedicareThreshold")
    ELSE SelfEmploymentTaxOn(SeTaxBlock(p.taxYear), p)

\* estimatedQuartely.ts: const TAX_YEAR = 2026
QuarterlyTaxYear == 2026
\* seTax.ts: const TAX_YEAR = 2025
SeTaxYear == 2025

\* estimatedQuartely.ts getSeTaxConstants: the constants, or the throw
getSeTaxConstants(taxYear) ==
    IF SeTaxBlock(taxYear) = EmptyObject
    THEN Threw("SE tax constants not found for tax year")
    ELSE IF \E s \in FilingStatuses :
                s \notin DOMAIN SeTaxBlock(taxYear).additionalMedicareThreshold
    THEN Threw("Missing additionalMedicareThreshold")
    ELSE [threw |-> FALSE] @@ SeTaxBlock(taxYear)

\* estimatedQuartely.ts calcSelfEmploymentTax, on the constants se it has got
QuarterlySelfEmploymentTaxOn(se, p) ==
    LET netProfit == clamp0(p.netProfitAnnual)
        w2Wages == clamp0(p.w2WagesAnnual)
        netEarnings == MulRate(netProfit, se.seNetEarningsFactor)
        ssTax == MulRate(ssTaxable(netEarnings, se.ssWageBase, w2Wages), se.ssRate)
        medicareTax == MulRate(netEarnings, se.medicareRate)
        threshold == se.additionalMedicareThreshold[p.filingStatus]
        combinedEarned == w2Wages + netEarnings
        addlTaxable == Max(0, combinedEarned - threshold)
        additional == MulRate(addlTaxable, se.additionalMedicareRate)
    IN  [threw |-> FALSE,
         netEarnings |-> round2(netEarnings),
         ssTax |-> round2(ssTax),
         medicareTax |-> round2(medicareTax),
         additionalMedicareTax |-> round2(additional),
         total |-> round2(ssTax + medicareTax + additional)]

calcSelfEmploymentTax(p) ==
    IF getSeTaxConstants(QuarterlyTaxYear).threw THEN getSeTaxConstants(QuarterlyTaxYear)
    ELSE QuarterlySelfEmploymentTaxOn(getSeTaxConstants(QuarterlyTaxYear), p)

(***************************************************************************)
(* Inputs of the self-employment tax                                       *)
(***************************************************************************)
\* the largest wage base of the constants files is WageBaseStep dollars above
\* the smallest
WageBaseStep == 7500
WageBases == {Dollars(168600), Dollars(168600 + WageBaseStep)}

SeTaxConstants(ssWageBase, statuses) ==
    [ssWageBase |-> ssWageBase, seNetEarningsFactor |-> 9235, ssRate |-> 1240,
     medicareRate |-> 290, additionalMedicareRate |-> 90,
     additionalMedicareThreshold |->
        [fs \in statuses |-> CASE fs = "mfj" -> Dollars(250000)
                               [] fs = "mfs" -> Dollars(125000)
                               [] OTHER -> Dollars(200000)]]

\* federal_constants.json: a block per year; one file lacks the seTax block, one
\* lacks the threshold of a filing status
ConstantsFiles ==
    {[y \in {2025, 2026} |-> [seTax |-> SeTaxConstants(b, FilingStatuses)]] : b \in WageBases}
    \cup {[y \in {2025, 2026} |-> [seTax |-> SeTaxConstants(Dollars(168600),
                                                            FilingStatuses \ {"hoh"})]],
          [y \in {2024} |-> [seTax |-> SeTaxConstants(Dollars(168600), FilingStatuses)]],
          [y \in {2025, 2026} |-> [version |-> "1"]]}

\* net profits and wages around the wage base and the additional-Medicare thresholds
SeProfits ==
    {0, 1, 1234567} \cup {Dollars(d) : d \in {1000, 50000, 100000, 182566, 182567, 182568,
                                              190700, 216567, 300000, 1000000}}
SeWages ==
    {0, 1234567} \cup {Dollars(d) : d \in {50000, 168599, 168600, 168601, 176100, 176101,
                                           200000, 300000}}

SeCalls ==
    {[fn |-> "computeSelfEmploymentTax", netProfit |-> n, w2Wages |-> w,
      filingStatus |-> fs, taxYear |-> SeTaxYear] :
        n \in SeProfits, w \in SeWages, fs \in FilingStatuses}
    \cup {[fn |-> "calcSelfEmploymentTax", netProfitAnnual |-> n, w2WagesAnnual |-> w,
           filingStatus |-> fs] :
        n \in SeProfits \cup {-Dollars(5000)}, w \in SeWages \cup {-Dollars(5000)},
        fs \in FilingStatuses}

(***************************************************************************)
(* Specification of the self-employment tax                                *)
(***************************************************************************)
InitSE ==
    /\ args \in SeCalls
    /\ federalConstants \in ConstantsFiles
    /\ compiled2026 = NoCompiledFile
    /\ compiledBase2026 = NoBaseFile
    /\ federal2026 = NoFederalFile
    /\ RULES_CACHE = EmptyCache
    /\ CACHE = EmptyCache
    /\ simulations = <<>>
    /\ res = NoResult
    /\ pc = "call"

ComputeSelfEmploymentTax ==
    /\ pc = "call" /\ args.fn = "computeSelfEmploymentTax"
    /\ res' = computeSelfEmploymentTax(args)
    /\ pc' = "done"
    /\ UNCHANGED <<Data, RULES_CACHE, CACHE, args>>

CalcSelfEmploymentTax ==
    /\ pc = "call" /\ args.fn = "calcSelfEmploymentTax"
    /\ res' = calcSelfEmploymentTax(args)
    /\ pc' = "done"
    /\ UNCHANGED <<Data, RULES_CACHE, CACHE, args>>

NextSE == ComputeSelfEmploymentTax \/ CalcSelfEmploymentTax

SpecSE == InitSE /\ [][NextSE]_vars

(***************************************************************************)
(* Claims on the self-employment tax                                       *)
(***************************************************************************)
SeReturned ==
    /\ pc = "done" /\ ~res.threw
    /\ args.fn \in {"computeSelfEmploymentTax", "calcSelfEmploymentTax"}

\* the constants the call read
SeConstantsRead ==
    federalConstants[IF args.fn = "computeSelfEmploymentTax" THEN SeTaxYear
                     ELSE QuarterlyTaxYear].seTax

\* the remaining Social-Security cap and the net earnings of the quarterly call
QuarterlyCap == Max(0, SeConstantsRead.ssWageBase - clamp0(args.w2WagesAnnual))
QuarterlyNetEarnings ==
    MulRate(clamp0(args.netProfitAnnual), SeConstantsRead.seNetEarningsFactor)

\* C6: for every netProfit >= 0 and w2Wages >= 0, 0 <= ssTaxable <=
\* max(0, ssWageBase - w2Wages) and ssTaxable <= netEarnings, so ssTax is 0 once the
\* W-2 wages reach the wage base.  computeSelfEmploymentTax returns ssTaxable (in
\* cents); calcSelfEmploymentTax returns only ssTax = ssTaxable * ssRate, on which
\* the same bounds are stated.
C6_SsTaxableCapped ==
    SeReturned =>
        /\ args.fn = "computeSelfEmploymentTax" =>
              /\ 0 <= res.ssTaxable
              /\ res.ssTaxable <= round2(Max(0, SeConstantsRead.ssWageBase - args.w2Wages))
              /\ res.ssTaxable <= res.netEarnings
              /\ args.w2Wages >= SeConstantsRead.ssWageBase => res.ssTax = 0
        /\ args.fn = "calcSelfEmploymentTax" =>
              /\ 0 <= res.ssTax
              /\ res.ssTax <= round2(MulRate(QuarterlyCap, SeConstantsRead.ssRate))
              /\ res.ssTax <= round2(MulRate(QuarterlyNetEarnings, SeConstantsRead.ssRate))
              /\ args.w2WagesAnnual >= SeConstantsRead.ssWageBase => res.ssTax = 0

\* W-2 wages use a part of the wage base and the rest of it caps the net earnings
C6_Witness ==
    /\ SeReturned /\ args.fn = "computeSelfEmploymentTax"
    /\ args.w2Wages > 0
    /\ 0 < res.ssCapRemaining /\ res.ssCapRemaining < res.netEarnings
    /\ res.ssTaxable = res.ssCapRemaining
    /\ res.ssTax > 0

(***************************************************************************)
(* simulationService.ts: the W-2 vs 1099 orchestrator                      *)
(***************************************************************************)
\* calcFederalTaxFromTaxableIncome_single_placeholder
calcFederalTaxFromTaxableIncome_single_placeholder(taxableIncome) ==
    calcProgressiveTax(Max(0, taxableIncome), FEDERAL_BRACKETS_2026_SINGLE)

calcFederalTaxW2_single_placeholder(w2Salary, standardDeduction) ==
    calcFederalTaxFromTaxableIncome_single_placeholder(Max(0, w2Salary - standardDeduction))

\* the placeholder wage base and additional-Medicare threshold of both calculators
PlaceholderWageBase == Dollars(168600)
PlaceholderAddThreshold == Dollars(200000)

calcFicaTax_placeholder(w2Salary) ==
    LET ss == MulRate(Min(w2Salary, PlaceholderWageBase), 620)
        med == MulRate(w2Salary, 145)
        add == MulRate(Max(0, w2Salary - PlaceholderAddThreshold), 90)
    IN  ss + med + add

\* the three parts calcSeTax_placeholder adds up
SeTaxParts_placeholder(netProfit) ==
    LET taxable == MulRate(Max(0, netProfit), 9235)
    IN  [ss |-> MulRate(Min(taxable, PlaceholderWageBase), 1240),
         med |-> MulRate(taxable, 290),
         additional |-> MulRate(Max(0, taxable - PlaceholderAddThreshold), 90)]

calcSeTax_placeholder(netProfit) ==
    SeTaxParts_placeholder(netProfit).ss + SeTaxParts_placeholder(netProfit).med
        + SeTaxParts_placeholder(netProfit).additional

\* federalAssumptions.ts getFederalStandardDeduction(year, "single"), for the years
\* getStandardDeductionWithMeta passes on: official for 2024, 14600 * 1.03 rounded to
\* the nearest 50 for 2025, a throw before 2024 and from 2026 on
getFederalStandardDeduction(year) ==
    CASE year = 2024 -> [threw |-> FALSE, value |-> Dollars(14600), method |-> "official"]
      [] year = 2025 -> [threw |-> FALSE, value |-> Dollars(15050), method |-> "estimated"]
      [] OTHER -> Threw("no fallback value for the year")

getStandardDeductionWithMeta(year) ==
    IF year = 2026
    THEN IF "standardDeduction" \notin DOMAIN federal2026
            \/ "single" \notin DOMAIN federal2026.standardDeduction
            \/ federal2026.standardDeduction.single <= 0
         THEN Threw("Missing confirmed standard deduction for 2026")
         ELSE [threw |-> FALSE, value |-> federal2026.standardDeduction.single,
               method |-> "official"]
    ELSE getFederalStandardDeduction(year)

\* compareResultsNew, the 1099 locals that depend on the inputs only
netProfit(inputs) == Max(0, inputs.income1099 - inputs.expenses)
halfSeDeduction(inputs) == Half(calcSeTax_placeholder(netProfit(inputs)))
agi(inputs) == Max(0, netProfit(inputs) - halfSeDeduction(inputs))

\* a quotient of two amounts, kept as the pair
Ratio(num, den) == [num |-> num, den |-> den]

\* n / 12 to the nearest thousandth
Twelfth(n) == (n + 6) \div 12

CompareThrew(error, caches) == [threw |-> TRUE, error |-> error, caches |-> caches]

\* the rest of compareResultsNew once both state taxes are known
CompareTotals(inputs, standardDeduction, w2State, seStateTax, caches) ==
    LET w2FederalTax == calcFederalTaxW2_single_placeholder(inputs.w2Salary, standardDeduction)
        w2Fica == calcFicaTax_placeholder(inputs.w2Salary)
        w2Total == w2FederalTax + w2State + w2Fica
        w2Net == inputs.w2Salary - w2Total
        seTax == calcSeTax_placeholder(netProfit(inputs))
        taxableFederal == Max(0, agi(inputs) - standardDeduction)
        seFederalTax == calcFederalTaxFromTaxableIncome_single_placeholder(taxableFederal)
        seTotal == seFederalTax + seStateTax + seTax
        seNet == inputs.income1099 - inputs.expenses - seTotal
    IN  [threw |-> FALSE,
         w2 |-> [federalTax |-> w2FederalTax, stateTax |-> w2State, ficaTax |-> w2Fica,
                 netIncome |-> w2Net,
                 effectiveTaxRate |-> IF inputs.w2Salary > 0
                                      THEN Ratio(w2Total, inputs.w2Salary) ELSE Ratio(0, 1)],
         se |-> [federalTax |-> seFederalTax, stateTax |-> seStateTax, seTax |-> seTax,
                 netIncome |-> seNet,
                 effectiveTaxRate |-> IF netProfit(inputs) > 0
                                      THEN Ratio(seTotal, netProfit(inputs)) ELSE Ratio(0, 1)],
         annualDifference |-> seNet - w2Net,
         monthlyDifference |-> Twelfth(seNet - w2Net),
         caches |-> caches]

\* what both paths pass to computeTaxableStateIncome and calcStateTaxFromTaxableBase
StateArgs(inputs, year) == [year |-> year, state |-> inputs.state, filingStatus |-> "single"]

\* const seStateTax = calcStateTaxFromTaxableBase({...}).tax
CompareSeState(inputs, standardDeduction, w2State, baseCache, seState) ==
    IF seState.result.threw
    THEN CompareThrew(seState.result.error, [rules |-> seState.cache, base |-> baseCache])
    ELSE CompareTotals(inputs, standardDeduction, w2State, seState.result.tax,
                       [rules |-> seState.cache, base |-> baseCache])

\* const seTaxable = computeTaxableStateIncome({..., federalAGI: agi, input: {}})
CompareSeTaxable(inputs, year, standardDeduction, w2State, rulesCache, seTaxable) ==
    IF seTaxable.threw
    THEN CompareThrew(seTaxable.error, [rules |-> rulesCache, base |-> seTaxable.cache])
    ELSE CompareSeState(inputs, standardDeduction, w2State, seTaxable.cache,
             calcStateTaxFromTaxableBase(
                 StateArgs(inputs, year) @@ [taxableBase |-> seTaxable.taxableStateIncome],
                 rulesCache))

\* const w2State = calcStateTaxFromTaxableBase({...}).tax
CompareW2State(inputs, year, standardDeduction, baseCache, w2State) ==
    IF w2State.result.threw
    THEN CompareThrew(w2State.result.error, [rules |-> w2State.cache, base |-> baseCache])
    ELSE CompareSeTaxable(inputs, year, standardDeduction, w2State.result.tax, w2State.cache,
             computeTaxableStateIncome(
                 StateArgs(inputs, year) @@ [federalAGI |-> agi(inputs), input |-> EmptyObject],
                 baseCache))

\* const w2Taxable = computeTaxableStateIncome({..., federalAGI: w2Salary})
CompareW2Taxable(inputs, year, standardDeduction, rulesCache, w2Taxable) ==
    IF w2Taxable.threw
    THEN CompareThrew(w2Taxable.error, [rules |-> rulesCache, base |-> w2Taxable.cache])
    ELSE CompareW2State(inputs, year, standardDeduction, w2Taxable.cache,
             calcStateTaxFromTaxableBase(
                 StateArgs(inputs, year) @@ [taxableBase |-> w2Taxable.taxableStateIncome],
                 rulesCache))

\* compareResultsNew(inputs, year, standardDeduction): its result and the two caches
\* (rules: RULES_CACHE, base: CACHE) after it
compareResultsNew(inputs, year, standardDeduction, caches) ==
    CompareW2Taxable(inputs, year, standardDeduction, caches.rules,
        computeTaxableStateIncome(
            StateArgs(inputs, year) @@ [federalAGI |-> inputs.w2Salary], caches.base))

\* the inputs of one compareResultsNew call of the search
SearchInputs(p, income1099) ==
    [w2Salary |-> p.w2Salary, income1099 |-> income1099, state |-> p.state,
     expenses |-> p.expenses, year |-> p.year]

SearchThrew(error, caches) == [threw |-> TRUE, error |-> error, caches |-> caches]

DoublingRounds == 12
BisectRounds == 30

\* a point past the upper bound
MidpointAbove(low, high) == high + 1

\* mid = (low + high) / 2
Midpoint(low, high) == (low + high) \div 2

\* findBreakEven, the second loop: mid = (low + high) / 2, thirty times
RECURSIVE Bisect(_, _, _, _, _, _, _)
RECURSIVE BisectTest(_, _, _, _, _, _, _)
Bisect(p, targetNet, low, high, mid, i, caches) ==
    IF i >= BisectRounds THEN [threw |-> FALSE, value |-> mid, caches |-> caches]
    ELSE BisectTest(p, targetNet, low, high, Midpoint(low, high), i,
             compareResultsNew(SearchInputs(p, Midpoint(low, high)), p.year,
                               p.standardDeduction, caches))

\* if (test.se.netIncome >= targetNet) high = mid; else low = mid
BisectTest(p, targetNet, low, high, mid, i, test) ==
    IF test.threw THEN SearchThrew(test.error, test.caches)
    ELSE Bisect(p, targetNet,
                IF test.se.netIncome >= targetNet THEN low ELSE mid,
                IF test.se.netIncome >= targetNet THEN mid ELSE high,
                mid, i + 1, test.caches)

\* findBreakEven, the first loop: high is doubled until the 1099 net income at high
\* reaches the target, twelve times at most
RECURSIVE Doubling(_, _, _, _, _)
RECURSIVE DoublingTest(_, _, _, _, _)
Doubling(p, targetNet, high, i, caches) ==
    IF i >= DoublingRounds THEN [threw |-> FALSE, high |-> high, caches |-> caches]
    ELSE DoublingTest(p, targetNet, high, i,
             compareResultsNew(SearchInputs(p, high), p.year, p.standardDeduction, caches))

DoublingTest(p, targetNet, high, i, test) ==
    IF test.threw THEN SearchThrew(test.error, test.caches)
    ELSE IF test.se.netIncome >= targetNet
    THEN [threw |-> FALSE, high |-> high, caches |-> test.caches]
    ELSE Doubling(p, targetNet, high * 2, i + 1, test.caches)

\* let low = 0; ... the second loop from the high the first one left
BreakEvenDoubled(p, targetNet, doubled) ==
    IF doubled.threw THEN doubled
    ELSE Bisect(p, targetNet, 0, doubled.high, 0, 0, doubled.caches)

\* const targetNet = baseline.w2.netIncome; let high = Math.max(1, w2Salary * 5)
BreakEvenBaseline(p, baseline) ==
    IF baseline.threw THEN SearchThrew(baseline.error, baseline.caches)
    ELSE BreakEvenDoubled(p, baseline.w2.netIncome,
             Doubling(p, baseline.w2.netIncome, Max(Dollars(1), p.w2Salary * 5), 0,
                      baseline.caches))

\* findBreakEven({year, w2Salary, state, expenses, standardDeduction}):
\* [threw, value, caches]
findBreakEven(p, caches) ==
    BreakEvenBaseline(p,
        compareResultsNew(SearchInputs(p, 0), p.year, p.standardDeduction, caches))

\* Math.round of an amount, in whole dollars
RoundDollar(n) == (n + 500) \div 1000

\* the numbers the three summary sentences print
Summary(results) ==
    [w2NetIncome |-> RoundDollar(results.w2.netIncome),
     totalTaxW2 |-> RoundDollar(results.w2.federalTax + results.w2.stateTax
                                + results.w2.ficaTax),
     seNetIncome |-> RoundDollar(results.se.netIncome),
     totalTax1099 |-> RoundDollar(results.se.federalTax + results.se.stateTax
                                  + results.se.seTax),
     winner |-> IF results.annualDifference >= 0 THEN "1099" ELSE "W-2",
     perYear |-> Abs(RoundDollar(results.annualDifference)),
     perMonth |-> Abs(RoundDollar(results.monthlyDifference))]

\* return { year, w2, se, ..., breakEven1099Income, summary, standardDeductionUsed }
SimulationSearched(year, stdDed, results, breakEven) ==
    IF breakEven.threw THEN breakEven
    ELSE [threw |-> FALSE, year |-> year, w2 |-> results.w2, se |-> results.se,
          annualDifference |-> results.annualDifference,
          monthlyDifference |-> results.monthlyDifference,
          breakEven1099Income |-> breakEven.value,
          summary |-> Summary(results),
          standardDeductionUsed |-> [value |-> stdDed.value, method |-> stdDed.method],
          caches |-> breakEven.caches]

\* const breakEven1099Income = await findBreakEven({...})
SimulationCompared(input, year, stdDed, results) ==
    IF results.threw THEN results
    ELSE SimulationSearched(year, stdDed, results,
             findBreakEven([year |-> year, w2Salary |-> input.w2Salary,
                            state |-> input.state, expenses |-> input.expenses,
                            standardDeduction |-> stdDed.value],
                           results.caches))

\* const results = await compareResultsNew(input, year, standardDeduction)
SimulationDeducted(input, year, stdDed, caches) ==
    IF stdDed.threw THEN [threw |-> TRUE, error |-> stdDed.error, caches |-> caches]
    ELSE SimulationCompared(input, year, stdDed,
             compareResultsNew(input, year, stdDed.value, caches))

\* computeSimulation(input): its result and the two caches after it
computeSimulation(input, caches) ==
    SimulationDeducted(input, Get(input, "year", 2026),
                       getStandardDeductionWithMeta(Get(input, "year", 2026)), caches)

(***************************************************************************)
(* Inputs of the W-2 vs 1099 comparison                                    *)
(***************************************************************************)
\* stateBaseRules.full.computed.2026.json, amounts in thousandths: CA with a standard
\* deduction, NY with a subtraction and an exemption, IL with no rule at all,
\* TX without income tax; the file knows no other state
ScenarioBaseFile ==
    [version |-> "1",
     states |-> [code \in {"CA", "NY", "IL", "TX"} |->
        CASE code = "CA" ->
                [deductions |-> [standardDeduction |-> [default |-> Dollars(5000)]]]
          [] code = "NY" ->
                [adjustments |->
                    [subtractions |->
                        <<ListRule("pension", "subtraction",
                                   [amount |-> Const(Dollars(1000))]),
                          ListRule("hsa", "subtraction",
                                   [amount |-> ValueOf("hsaContributionAnnual")])>>],
                 deductions |->
                    [personalExemption |-> [byStatus |-> [single |-> Dollars(100)]]]]
          [] code = "IL" -> EmptyObject
          [] OTHER -> [meta |-> [hasIncomeTax |-> FALSE]]]]

\* federal/2026.json, and one that has lost its standard deduction
ScenarioFederalFiles ==
    {FederalFile(FEDERAL_BRACKETS_2026_SINGLE, TRUE),
     [brackets |-> [fs \in FilingStatuses |-> FEDERAL_BRACKETS_2026_SINGLE]]}

ScenarioSalaries == {0, Dollars(100), Dollars(50000), Dollars(150000)}
ScenarioIncomes == {0, Dollars(1000), Dollars(60000), Dollars(300000)}
ScenarioExpenses == {0, Dollars(5000)}
ScenarioStates == {"CA", "NY", "IL", "TX", "OR"}

\* the body of POST /calc after validation: non-negative amounts, a state code and,
\* for computeSimulation's other callers, a year
SimulationCalls ==
    {[fn |-> "computeSimulation",
      input |-> [w2Salary |-> w, income1099 |-> i, expenses |-> e, state |-> s] @@ y] :
        w \in ScenarioSalaries, i \in ScenarioIncomes, e \in ScenarioExpenses,
        s \in ScenarioStates,
        y \in {EmptyObject, [year |-> 2025], [year |-> 2026]}}

(***************************************************************************)
(* computeSimulation as a step                                             *)
(***************************************************************************)
\* what the caller gets, and the two module caches after the call
SimulationReturns(r) ==
    /\ res' = [f \in DOMAIN r \ {"caches"} |-> r[f]]
    /\ RULES_CACHE' = r.caches.rules
    /\ CACHE' = r.caches.base

ComputeSimulation ==
    /\ pc = "call" /\ args.fn = "computeSimulation"
    /\ SimulationReturns(computeSimulation(args.input,
                                           [rules |-> RULES_CACHE, base |-> CACHE]))
    /\ pc' = "done"
    /\ UNCHANGED <<Data, args>>

SimulationReturned == pc = "done" /\ args.fn = "computeSimulation" /\ ~res.threw

\* the 1099 net income at a gross income, with the salary, expenses and state of the call
NetIncome1099At(income1099) ==
    compareResultsNew(
        [w2Salary |-> args.input.w2Salary, income1099 |-> income1099,
         state |-> args.input.state, expenses |-> args.input.expenses],
        res.year, res.standardDeductionUsed.value,
        [rules |-> RULES_CACHE, base |-> CACHE]).se.netIncome

\* C8: the break-even gross income the search returns gives a 1099 net income within
\* one dollar of the W-2 net income of the salary, for every salary, every amount of
\* expenses and every supported state
C8_BreakEvenConverges ==
    SimulationReturned =>
        Abs(NetIncome1099At(res.breakEven1099Income) - res.w2.netIncome) < Dollars(1)

(***************************************************************************)
(* estimatedQuartely.ts: the premium calculators                           *)
(***************************************************************************)
\* one step of MulDivRem: h is the quotient and remainder of a * (b \div 8)
MulDivStep(a, b, c, h) ==
    [q |-> 8 * h.q + (b % 8) * (a \div c) + ((8 * h.r + (b % 8) * (a % c)) \div c),
     r |-> (8 * h.r + (b % 8) * (a % c)) % c]

\* a * b = q * c + r with 0 <= r < c, three bits of b at a time, for a, b >= 0 and
\* 0 < c <= 100,000 dollars
RECURSIVE MulDivRem(_, _, _)
MulDivRem(a, b, c) ==
    IF b = 0 THEN [q |-> 0, r |-> 0]
    ELSE MulDivStep(a, b, c, MulDivRem(a, b \div 8, c))

\* a * (b / c) on doubles: the exact quotient rounded to the nearest thousandth
NearestQuotient(qr, c) == qr.q + (IF 2 * qr.r >= c THEN 1 ELSE 0)
MulDiv(a, b, c) == NearestQuotient(MulDivRem(a, b, c), c)

\* the number of steps with a slip: only the steps begun and ended count
FloorDiv(a, b) == a \div b

\* Math.ceil(a / b) for a >= 0, b > 0
CeilDiv(a, b) == (a + b - 1) \div b

\* function premium() { return federal2026 ?? {} }: the block named f, or undefined
NoBlock == [undefined |-> TRUE]
premium(f) == Get(federal2026, f, NoBlock)

\* calcItemizedDeduction
calcItemizedDeduction(p) ==
    LET saltCap == Get(premium("itemized"), "saltCap", 0)
        saltDed == Min(clamp0(p.saltPaid), saltCap)
    IN  round2(clamp0(saltDed) + clamp0(p.mortgageInterest) + clamp0(p.charity)
               + clamp0(p.otherItemized))

\* the wage limit with a slip: the property of the business counts for nothing
QbiWageLimitWagesOnly(w2, ubia) == round2(Half(w2))

\* round2(Math.max(0.5 * w2, 0.25 * w2 + 0.025 * ubia))
QbiWageLimit(w2, ubia) == round2(Max(Half(w2), MulRate(w2, 2500) + MulRate(ubia, 250)))

\* Number(q.phaseoutRange?.[filingStatus] ?? 0) || (mfj ? 100000 : 50000)
QbiPhaseoutRange(q, filingStatus) ==
    IF Get(Get(q, "phaseoutRange", EmptyObject), filingStatus, 0) # 0
    THEN q.phaseoutRange[filingStatus]
    ELSE IF filingStatus = "mfj" THEN Dollars(100000) ELSE Dollars(50000)

\* calcQbiDeduction above the threshold: ratio = excess / phaseoutRange inside
\* the phase-out, 1 past it
QbiAboveThreshold(p, rate, threshold, phaseoutRange, tentative, taxableLimit) ==
    LET withinPhaseout == p.taxableBeforeQbi < threshold + phaseoutRange
        excess == IF withinPhaseout THEN clamp0(p.taxableBeforeQbi - threshold)
                  ELSE phaseoutRange
        w2 == clamp0(p.w2Wages)
        ubia == clamp0(p.ubia)
        wageLimit == QbiWageLimit(w2, ubia)
        adjQbi == round2(MulDiv(clamp0(p.qbiBase), phaseoutRange - excess, phaseoutRange))
        adjW2 == round2(MulDiv(w2, phaseoutRange - excess, phaseoutRange))
        adjUbia == round2(MulDiv(ubia, phaseoutRange - excess, phaseoutRange))
        fullLimited == round2(Min(tentative, wageLimit))
        phased == IF wageLimit < tentative /\ withinPhaseout
                  THEN round2(tentative - MulDiv(tentative - wageLimit, excess, phaseoutRange))
                  ELSE fullLimited
    IN  IF p.businessType = "sstb"
        THEN IF ~withinPhaseout THEN 0
             ELSE round2(Min(Min(round2(MulRate(adjQbi, rate)), QbiWageLimit(adjW2, adjUbia)),
                             taxableLimit))
        ELSE round2(Min(phased, taxableLimit))

\* what calcQbiDeduction reads from the constants block q and derives from p
QbiRate(q) == Get(q, "rate", 2000)
QbiThreshold(q, p) == Get(Get(q, "threshold", EmptyObject), p.filingStatus, 0)
QbiTaxableLimit(q, p) ==
    round2(MulRate(clamp0(p.taxableBeforeQbi - clamp0(p.netCapitalGains)), QbiRate(q)))
QbiTentative(q, p) == round2(MulRate(clamp0(p.qbiBase), QbiRate(q)))

\* QbiDeductionOn with a slip: the wage and SSTB limits apply below the threshold too
QbiDeductionOnLimited(q, p) ==
    IF QbiPhaseoutRange(q, p.filingStatus) <= 0
    THEN round2(Min(QbiTentative(q, p), QbiTaxableLimit(q, p)))
    ELSE QbiAboveThreshold(p, QbiRate(q), QbiThreshold(q, p),
                           QbiPhaseoutRange(q, p.filingStatus),
                           QbiTentative(q, p), QbiTaxableLimit(q, p))

\* calcQbiDeduction on the constants block q
QbiDeductionOn(q, p) ==
    IF p.taxableBeforeQbi <= QbiThreshold(q, p) \/ QbiPhaseoutRange(q, p.filingStatus) <= 0
    THEN round2(Min(QbiTentative(q, p), QbiTaxableLimit(q, p)))
    ELSE QbiAboveThreshold(p, QbiRate(q), QbiThreshold(q, p),
                           QbiPhaseoutRange(q, p.filingStatus),
                           QbiTentative(q, p), QbiTaxableLimit(q, p))

calcQbiDeduction(p) ==
    IF premium("qbi") = NoBlock THEN 0 ELSE QbiDeductionOn(premium("qbi"), p)

\* calcNiit
calcNiit(p) ==
    IF premium("niit") = NoBlock THEN 0
    ELSE LET n == premium("niit")
             excess == clamp0(p.magi - Get(Get(n, "threshold", EmptyObject),
                                           p.filingStatus, 0))
         IN  round2(MulRate(Min(clamp0(p.netInvestmentIncome), excess),
                            Get(n, "rate", 380)))

\* calcChildCredits on the constants block c
ChildCreditsOn(c, p) ==
    LET phaseStep == Get(c, "phaseoutStep", Dollars(1000))
        baseCredit == clamp0(p.qualifyingChildren) * Get(c, "perQualifyingChild", 0)
                      + clamp0(p.otherDependents) * Get(c, "perOtherDependent", 0)
        over == clamp0(p.magi - Get(Get(c, "phaseoutStart", EmptyObject), p.filingStatus, 0))
        steps == IF phaseStep > 0 THEN CeilDiv(over, phaseStep) ELSE 0
        afterPhase == clamp0(baseCredit - steps * Get(c, "phaseoutAmountPerStep", Dollars(50)))
        maxRefundable == clamp0(p.qualifyingChildren) * Get(c, "maxRefundablePerChild", 0)
        nonRefundableUsed == Min(afterPhase, clamp0(p.federalTaxBeforeCredits))
        refundable == Min(clamp0(afterPhase - nonRefundableUsed), maxRefundable)
    IN  [ctcNonRefundableUsed |-> round2(nonRefundableUsed),
         ctcRefundable |-> round2(refundable),
         totalCreditsApplied |-> round2(nonRefundableUsed + refundable),
         notes |-> <<"CTC/ODC computed with simplified refundable logic (ACTC cap).">>]

calcChildCredits(p) ==
    IF premium("ctc") = NoBlock
    THEN [ctcNonRefundableUsed |-> 0, ctcRefundable |-> 0, totalCreditsApplied |-> 0,
          notes |-> <<"CTC constants missing.">>]
    ELSE ChildCreditsOn(premium("ctc"), p)

\* Math.min(3, Math.max(0, Math.floor(children)))
Kids(children) == Min(3, Max(0, children))

\* the key `${filingStatus}_${kids}` of the EITC table
EitcKey(filingStatus, kids) == <<filingStatus, kids>>

\* calcEitc on the table row
EitcOnRow(row, p) ==
    LET baseIncome == Min(p.earnedIncome, p.agi)
        creditPhaseIn == Min(Get(row, "maxCredit", 0),
                             MulRate(baseIncome, Get(row, "phaseInRate", 0)))
        phaseOut == MulRate(clamp0(baseIncome - Get(row, "phaseOutStart", 0)),
                            Get(row, "phaseOutRate", 0))
    IN  [credit |-> round2(clamp0(creditPhaseIn - phaseOut)),
         note |-> "EITC computed from table."]

calcEitc(p) ==
    IF premium("eitc") = NoBlock THEN [credit |-> 0, note |-> "EITC constants missing."]
    ELSE IF p.investmentIncome > Get(premium("eitc"), "investmentIncomeLimit", 0)
    THEN [credit |-> 0, note |-> "Investment income too high for EITC."]
    ELSE IF EitcKey(p.filingStatus, Kids(p.children))
                \notin DOMAIN Get(premium("eitc"), "table", EmptyObject)
    THEN [credit |-> 0, note |-> "EITC table row missing."]
    ELSE EitcOnRow(premium("eitc").table[EitcKey(p.filingStatus, Kids(p.children))], p)

\* calcCaCredits on the constants block ca
CaCreditsOn(ca, p) ==
    LET table == Get(ca, "calEitcTable", EmptyObject)
        kids == Kids(p.qualifyingChildren)
        caleitc == IF kids \in DOMAIN table
                   THEN clamp0(Get(table[kids], "maxCredit", 0)
                               - MulRate(clamp0(p.earnedIncome
                                                - Get(table[kids], "phaseOutStart", 0)),
                                         Get(table[kids], "phaseOutRate", 0)))
                   ELSE 0
        y == Get(ca, "yctc", EmptyObject)
        incomeLimit == Get(y, "incomeLimit", 0)
        yctc == IF p.hasYoungChild /\ (incomeLimit <= 0 \/ p.earnedIncome <= incomeLimit)
                THEN Get(y, "amount", 0) ELSE 0
    IN  [caCredits |-> round2(caleitc + yctc),
         notes |-> <<"CA credits computed using simplified CalEITC + YCTC.">>]

calcCaCredits(p) ==
    IF p.state # "CA" THEN [caCredits |-> 0, notes |-> <<>>]
    ELSE IF premium("ca") = NoBlock
    THEN [caCredits |-> 0, notes |-> <<"CA constants missing.">>]
    ELSE CaCreditsOn(premium("ca"), p)

\* safeHarborMultiplier with a slip: the prior-year AGI is never looked at
safeHarborAlwaysOne(filingStatus, priorYearAgi) == RateDen

\* safeHarborMultiplier, as a rate: 1.1 above the threshold, 1.0 otherwise
safeHarborMultiplier(filingStatus, priorYearAgi) ==
    LET priorAgi == IF priorYearAgi = Null THEN 0 ELSE priorYearAgi
    IN  IF priorAgi <= 0 THEN RateDen
        ELSE IF priorAgi > (IF filingStatus = "mfs" THEN Dollars(75000) ELSE Dollars(150000))
        THEN 11000 ELSE RateDen

\* a / n on doubles for n > 0: the quotient rounded to the nearest thousandth
DivRound(a, n) == (2 * a + n) \div (2 * n)

\* DUE_DATES(year) as days since January 1 of the tax year: Apr 15, Jun 15, Sep 15 and
\* Jan 15 of the next year
DUE_DATES == <<105, 166, 258, 380>>
QuarterLabels == <<"Q1", "Q2", "Q3", "Q4">>

\* quartersPassedByNow(taxYear, now).passed, now in days since January 1 of the tax year
quartersPassedByNow(now) == Cardinality({k \in 1..4 : now > DUE_DATES[k]})

\* buildPenaltyRiskLite: the estimated payments allocated to the four quarters
PaidByQuarter(p, passed) ==
    IF p.usePerQuarterPayments
    THEN <<clamp0(p.paymentsMadeQ1), clamp0(p.paymentsMadeQ2),
           clamp0(p.paymentsMadeQ3), clamp0(p.paymentsMadeQ4)>>
    ELSE [k \in 1..4 |->
            IF passed > 0 /\ passed >= k
            THEN round2(DivRound(clamp0(p.paymentsMadeYtdAnnual), passed)) ELSE 0]

\* the withholding and the payment of the one quarter, nothing carried from before
CumPaidQuarterOnly(withholdingPerQuarter, paidQ, k) ==
    IF k = 0 THEN 0 ELSE withholdingPerQuarter + paidQ[k]

\* cumPaidByQuarter(label): withholding counts evenly, then the payments up to label
RECURSIVE CumPaid(_, _, _)
CumPaid(withholdingPerQuarter, paidQ, k) ==
    IF k = 0 THEN 0
    ELSE CumPaid(withholdingPerQuarter, paidQ, k - 1) + withholdingPerQuarter + paidQ[k]

UnderpaymentByQuarter(p, paidQ) ==
    [k \in 1..4 |->
        LET requiredByDueDate == round2(MulRate(p.safeHarborRequiredAnnual, 2500 * k))
            paidByDueDate == round2(CumPaid(round2(DivRound(clamp0(p.withholdingAnnual), 4)),
                                            paidQ, k))
        IN  [label |-> QuarterLabels[k],
             requiredByDueDate |-> requiredByDueDate,
             paidByDueDate |-> paidByDueDate,
             underpayment |-> round2(clamp0(requiredByDueDate - paidByDueDate))]]

PenaltyRiskOn(p, passed, rows) ==
    [safeHarborRequiredAnnual |-> round2(p.safeHarborRequiredAnnual),
     safeHarborRequiredToDate |->
        round2(IF passed <= 0 THEN 0 ELSE rows[passed].requiredByDueDate),
     paidToDate |-> round2(IF passed <= 0 THEN 0 ELSE rows[passed].paidByDueDate),
     protectedBySafeHarbor |->
        IF passed <= 0 THEN TRUE
        ELSE rows[passed].paidByDueDate + 10 >= rows[passed].requiredByDueDate,
     quartersPassed |-> passed,
     quartersLeft |-> 4 - passed,
     underpaymentByQuarter |-> rows]

\* buildPenaltyRiskLite(p) at the time now
buildPenaltyRiskLite(p, now) ==
    PenaltyRiskOn(p, Min(4, Max(0, quartersPassedByNow(now))),
                  UnderpaymentByQuarter(p, PaidByQuarter(p, Min(4, Max(0,
                                                         quartersPassedByNow(now))))))

(***************************************************************************)
(* estimatedQuartely.ts: POST /calc/estimated-quarterly                    *)
(***************************************************************************)
\* calcStateIncomeTax: calcStateTaxFromTaxableBase({...}).tax
StateIncomeTaxed(baseCache, taxed) ==
    IF taxed.result.threw
    THEN [threw |-> TRUE, error |-> taxed.result.error,
          caches |-> [rules |-> taxed.cache, base |-> baseCache]]
    ELSE [threw |-> FALSE, tax |-> taxed.result.tax,
          caches |-> [rules |-> taxed.cache, base |-> baseCache]]

\* calcStateIncomeTax after loadStateBaseRules, applyStateConformity and
\* applyStateDeductions, the calls computeTaxableStateIncome makes too
StateIncomeDeducted(a, rulesCache, taxable) ==
    IF taxable.threw
    THEN [threw |-> TRUE, error |-> taxable.error,
          caches |-> [rules |-> rulesCache, base |-> taxable.cache]]
    ELSE StateIncomeTaxed(taxable.cache,
             calcStateTaxFromTaxableBase(
                 [year |-> a.year, state |-> a.state, filingStatus |-> a.filingStatus,
                  taxableBase |-> taxable.taxableStateIncome],
                 rulesCache))

\* calcStateIncomeTax(args): [threw, tax, caches]
calcStateIncomeTax(a, caches) ==
    IF a.state \in DOMAIN compiled2026
       /\ Get(compiled2026[a.state], "hasIncomeTax", TRUE) = FALSE
    THEN [threw |-> FALSE, tax |-> 0, caches |-> caches]
    ELSE StateIncomeDeducted(a, caches.rules, computeTaxableStateIncome(a, caches.base))

\* getStandardDeduction(filingStatus)
getStandardDeduction(filingStatus) ==
    Get(Get(federal2026, "standardDeduction", EmptyObject), filingStatus, 0)

\* the keys of hasAnyPremiumFields
PremiumKeys ==
    {"w2WagesAnnual", "interestIncomeAnnual", "dividendIncomeAnnual", "capitalGainsAnnual",
     "netInvestmentIncomeAdjustmentsAnnual", "qbiBusinessType", "qbiW2WagesAnnual",
     "qbiQualifiedPropertyUbiaAnnual", "hsaContributionAnnual", "iraContributionAnnual",
     "solo401kEmployeeAnnual", "solo401kEmployerAnnual", "otherAdjustmentsAnnual",
     "useItemized", "itemizedSaltPaidAnnual", "itemizedMortgageInterestAnnual",
     "itemizedCharityAnnual", "itemizedOtherAnnual", "qualifyingChildren",
     "otherDependents", "caHasYoungChild", "priorYearTotalTax", "priorYearAgi", "strategy",
     "paymentsMadeYtdAnnual", "usePerQuarterPayments", "paymentsMadeQ1", "paymentsMadeQ2",
     "paymentsMadeQ3", "paymentsMadeQ4"}

hasAnyPremiumFields(body) == DOMAIN body \cap PremiumKeys # {}

\* the defaults of inputSchema
InputDefaults ==
    [otherIncomeAnnual |-> 0, withholdingAnnual |-> 0, w2WagesAnnual |-> 0,
     interestIncomeAnnual |-> 0, dividendIncomeAnnual |-> 0, capitalGainsAnnual |-> 0,
     netInvestmentIncomeAdjustmentsAnnual |-> 0, qbiBusinessType |-> "nonSstb",
     qbiW2WagesAnnual |-> 0, qbiQualifiedPropertyUbiaAnnual |-> 0,
     hsaContributionAnnual |-> 0, iraContributionAnnual |-> 0,
     solo401kEmployeeAnnual |-> 0, solo401kEmployerAnnual |-> 0,
     otherAdjustmentsAnnual |-> 0, useItemized |-> FALSE, itemizedSaltPaidAnnual |-> 0,
     itemizedMortgageInterestAnnual |-> 0, itemizedCharityAnnual |-> 0,
     itemizedOtherAnnual |-> 0, qualifyingChildren |-> 0, otherDependents |-> 0,
     caHasYoungChild |-> FALSE, paymentsMadeYtdAnnual |-> 0,
     usePerQuarterPayments |-> FALSE, paymentsMadeQ1 |-> 0, paymentsMadeQ2 |-> 0,
     paymentsMadeQ3 |-> 0, paymentsMadeQ4 |-> 0]

StringKeys == {"filingStatus", "state", "strategy", "qbiBusinessType"}
BooleanKeys == {"useItemized", "caHasYoungChild", "usePerQuarterPayments"}

\* the state codes the schema accepts after trim and toUpperCase: two letters
TwoLetterCodes == {"CA", "NY", "IL", "TX", "OR", "NH", "ZZ"}

\* inputSchema.safeParse(body).success
ValidInput(body) ==
    /\ {"filingStatus", "state", "netProfitAnnual"} \subseteq DOMAIN body
    /\ body.filingStatus \in FilingStatuses
    /\ normalizeState(body.state) \in TwoLetterCodes
    /\ \A k \in DOMAIN body \ (StringKeys \cup BooleanKeys) : body[k] >= 0

\* parsed.data
ParsedInput(body) == [state |-> normalizeState(body.state)] @@ body @@ InputDefaults

\* the request body as the rule evaluator reads it
BodyFacts(body) ==
    [k \in DOMAIN body |->
        IF k \in StringKeys THEN StrV(body[k])
        ELSE IF k \in BooleanKeys THEN BoolV(body[k])
        ELSE NumV(body[k])]

Quarters(amount) ==
    [k \in 1..4 |->
        [label |-> QuarterLabels[k],
         dueDateLabel |-> <<"Apr 15", "Jun 15", "Sep 15", "Jan 15">>[k],
         amount |-> amount]]

Failure(status, message) == [status |-> status, message |-> message]

\* 10) the pie and the response
QuarterlyResponse(q, penaltyRisk) ==
    [status |-> 200,
     tier |-> IF q.isPremium THEN "premium" ELSE "free",
     taxYear |-> QuarterlyTaxYear,
     annual |-> [totalTax |-> round2(q.totalTax),
                 remainingAfterWithholding |-> round2(q.remainingAfterWithholding),
                 seTax |-> round2(q.seTax),
                 federalIncomeTaxAfterCredits |-> round2(q.federalIncomeTaxAfterCredits),
                 niitTax |-> round2(q.niitTax),
                 qbiDeduction |-> round2(q.qbiDeduction),
                 taxableIncomeFederal |-> round2(q.taxableIncomeFederal),
                 stateIncomeTax |-> round2(q.stateIncomeTax)],
     quarterly |-> q.quarterly,
     pie |-> IF q.isPremium
             THEN [labels |-> <<"Federal (after credits)", "NIIT", "State", "FICA/SE", "Net">>,
                   values |-> <<q.federalIncomeTaxAfterCredits, q.niitTax, q.stateIncomeTax,
                                q.seTax, round2(clamp0(q.grossIncome - q.totalTax))>>]
             ELSE [labels |-> <<"Federal", "State", "FICA/SE", "Net">>,
                   values |-> <<q.federalTotal, q.stateIncomeTax, q.seTax,
                                round2(clamp0(q.grossIncome - q.totalTax))>>],
     notes |-> (IF q.isPremium /\ q.qbiDeduction > 0 THEN <<"QBI deduction applied">>
                ELSE <<>>)
               \o (IF q.isPremium /\ q.niitTax > 0 THEN <<"NIIT (3.8%) applied">> ELSE <<>>)
               \o (IF penaltyRisk # NoBlock
                   THEN <<"Penalty risk is simplified and for education only.">>
                   ELSE <<>>)]
    @@ (IF penaltyRisk # NoBlock THEN [penaltyRisk |-> penaltyRisk] ELSE EmptyObject)
    @@ (IF ~q.isPremium /\ q.premiumPreview # NoBlock
        THEN [premiumPreview |-> q.premiumPreview] ELSE EmptyObject)

\* 9.5) penalty risk: premium only, requires prior year tax
QuarterlyPenaltyRisk(q) ==
    QuarterlyResponse(q,
        IF q.isPremium /\ q.safeHarborAnnual # Null /\ q.safeHarborAnnual > 0
        THEN buildPenaltyRiskLite(
                 [safeHarborRequiredAnnual |-> q.safeHarborAnnual,
                  withholdingAnnual |-> q.withholdingAnnual,
                  paymentsMadeYtdAnnual |-> q.paymentsMadeYtdAnnual,
                  usePerQuarterPayments |-> q.usePerQuarterPayments,
                  paymentsMadeQ1 |-> q.paymentsMadeQ1, paymentsMadeQ2 |-> q.paymentsMadeQ2,
                  paymentsMadeQ3 |-> q.paymentsMadeQ3, paymentsMadeQ4 |-> q.paymentsMadeQ4],
                 q.now)
        ELSE NoBlock)

\* safeHarborAnnual = round2(priorYearTotalTax * multiplier)
SafeHarborAnnual(filingStatus, priorYearTotalTax, priorYearAgi) ==
    round2(MulRate(priorYearTotalTax, safeHarborMultiplier(filingStatus, priorYearAgi)))

\* 9) safe harbor, on the annual requirement (Null without prior-year tax)
QuarterlySafeHarborOn(q, safeHarborAnnual) ==
    QuarterlyPenaltyRisk(
        [safeHarborAnnual |-> safeHarborAnnual,
         premiumPreview |->
            IF safeHarborAnnual = Null THEN NoBlock
            ELSE [safeHarborMinAnnual |-> safeHarborAnnual,
                  safeHarborMinQuarterly |-> round2(DivRound(safeHarborAnnual, 4))],
         quarterly |->
            IF safeHarborAnnual # Null /\ q.isPremium
               /\ Get(q, "strategy", "currentYear") = "safeHarbor"
            THEN Quarters(round2(DivRound(round2(clamp0(safeHarborAnnual
                                                        - q.withholdingAnnual)), 4)))
            ELSE Quarters(round2(DivRound(q.remainingAfterWithholding, 4)))]
        @@ q)

QuarterlySafeHarbor(q) ==
    QuarterlySafeHarborOn(q,
        IF Get(q, "priorYearTotalTax", Null) # Null /\ q.priorYearTotalTax > 0
        THEN SafeHarborAnnual(q.filingStatus, q.priorYearTotalTax,
                              Get(q, "priorYearAgi", Null))
        ELSE Null)

\* 7) totals
QuarterlyTotals(q, stateIncomeTax) ==
    QuarterlySafeHarbor(
        [stateIncomeTax |-> stateIncomeTax,
         seTax |-> q.se.total,
         totalTax |-> round2(q.se.total + q.federalTotal + stateIncomeTax),
         remainingAfterWithholding |->
            round2(clamp0(round2(q.se.total + q.federalTotal + stateIncomeTax)
                          - q.withholdingAnnual))]
        @@ q)

\* what the handler answers and the two caches after it
Answer(response, caches) == [response |-> response, caches |-> caches]

\* 6) state tax, less the CA credits of a premium user
QuarterlyState(q, stateTax) ==
    IF stateTax.threw
    THEN Answer(Failure(500, "Failed to calculate"), stateTax.caches)
    ELSE Answer(
             QuarterlyTotals(q,
                 IF q.isPremium /\ q.state = "CA"
                 THEN round2(clamp0(stateTax.tax
                        - calcCaCredits([state |-> q.state, earnedIncome |-> q.earnedIncome,
                                         qualifyingChildren |-> q.qualifyingChildren,
                                         hasYoungChild |-> q.caHasYoungChild]).caCredits))
                 ELSE stateTax.tax),
             stateTax.caches)

\* 5) federal tax after the credits
QuarterlyCredits(q, niitTax, ctc, eitc, caches) ==
    LET federalAfterNonRefundable ==
            round2(clamp0(q.federalIncomeTaxBeforeCredits - ctc.ctcNonRefundableUsed))
        refundableCredits == round2(clamp0(eitc.credit) + clamp0(ctc.ctcRefundable))
        federalIncomeTaxAfterCredits ==
            round2(clamp0(federalAfterNonRefundable - refundableCredits))
    IN  QuarterlyState(
            [niitTax |-> niitTax,
             federalIncomeTaxAfterCredits |-> federalIncomeTaxAfterCredits,
             federalTotal |-> round2(clamp0(federalIncomeTaxAfterCredits + niitTax))]
            @@ q,
            calcStateIncomeTax(
                [year |-> QuarterlyTaxYear, state |-> q.state,
                 filingStatus |-> q.filingStatus, federalAGI |-> q.agi,
                 input |-> BodyFacts(q.body), useItemized |-> q.useItemized],
                caches))

NoChildCredits ==
    [ctcNonRefundableUsed |-> 0, ctcRefundable |-> 0, totalCreditsApplied |-> 0,
     notes |-> <<>>]

\* 5) federal tax before the credits, NIIT and the credits of a premium user
QuarterlyFederal(q, federalIncomeTaxBeforeCredits, caches) ==
    QuarterlyCredits(
        [federalIncomeTaxBeforeCredits |-> federalIncomeTaxBeforeCredits] @@ q,
        IF q.isPremium
        THEN calcNiit([filingStatus |-> q.filingStatus, magi |-> q.agi,
                       netInvestmentIncome |-> q.netInvestmentIncomeForNiit])
        ELSE 0,
        IF q.isPremium
        THEN calcChildCredits([filingStatus |-> q.filingStatus, magi |-> q.agi,
                               federalTaxBeforeCredits |-> federalIncomeTaxBeforeCredits,
                               qualifyingChildren |-> q.qualifyingChildren,
                               otherDependents |-> q.otherDependents])
        ELSE NoChildCredits,
        IF q.isPremium
        THEN calcEitc([filingStatus |-> q.filingStatus, earnedIncome |-> q.earnedIncome,
                       agi |-> q.agi, children |-> q.qualifyingChildren,
                       investmentIncome |-> q.investmentIncomeGross])
        ELSE [credit |-> 0, note |-> ""],
        caches)

\* 4) QBI
QuarterlyQbi(q, qbiDeduction, caches) ==
    QuarterlyFederal(
        [qbiDeduction |-> qbiDeduction,
         taxableIncomeFederal |-> round2(clamp0(q.taxableBeforeQbi - qbiDeduction))] @@ q,
        calcTaxFromBrackets(round2(clamp0(q.taxableBeforeQbi - qbiDeduction)),
                            q.filingStatus),
        caches)

\* 3) deductions
QuarterlyDeductions(q, standardDeduction, itemizedDeduction, caches) ==
    LET deduction == IF q.isPremium /\ q.useItemized
                     THEN Max(itemizedDeduction, standardDeduction)
                     ELSE standardDeduction
        taxableBeforeQbi == round2(clamp0(q.agi - deduction))
        qbiBase == IF q.isPremium
                   THEN clamp0(q.netProfitAnnual - q.deductibleHalf
                               - q.solo401kEmployeeAnnual - q.solo401kEmployerAnnual
                               - q.hsaContributionAnnual - q.iraContributionAnnual)
                   ELSE 0
    IN  QuarterlyQbi(
            [taxableBeforeQbi |-> taxableBeforeQbi, qbiBase |-> qbiBase] @@ q,
            IF q.isPremium
            THEN calcQbiDeduction([filingStatus |-> q.filingStatus, qbiBase |-> qbiBase,
                                   taxableBeforeQbi |-> taxableBeforeQbi,
                                   netCapitalGains |-> q.capitalGainsAnnual,
                                   businessType |-> q.qbiBusinessType,
                                   w2Wages |-> q.qbiW2WagesAnnual,
                                   ubia |-> q.qbiQualifiedPropertyUbiaAnnual])
            ELSE 0,
            caches)

\* 2) above-the-line deductions and the AGI
QuarterlyAboveLine(q, deductibleHalf, caches) ==
    LET aboveLineDeductions ==
            round2(deductibleHalf + clamp0(q.hsaContributionAnnual)
                   + clamp0(q.iraContributionAnnual) + clamp0(q.solo401kEmployeeAnnual)
                   + clamp0(q.solo401kEmployerAnnual) + clamp0(q.otherAdjustmentsAnnual))
    IN  QuarterlyDeductions(
            [deductibleHalf |-> deductibleHalf,
             agi |-> round2(clamp0(q.grossIncome - aboveLineDeductions))] @@ q,
            getStandardDeduction(q.filingStatus),
            calcItemizedDeduction([saltPaid |-> q.itemizedSaltPaidAnnual,
                                   mortgageInterest |-> q.itemizedMortgageInterestAnnual,
                                   charity |-> q.itemizedCharityAnnual,
                                   otherItemized |-> q.itemizedOtherAnnual]),
            caches)

\* 2) SE tax: const deductibleHalf = round2((se.ssTax + se.medicareTax) * 0.5)
QuarterlySe(q, se, caches) ==
    IF se.threw THEN Answer(Failure(500, "Failed to calculate"), caches)
    ELSE QuarterlyAboveLine([se |-> se] @@ q, round2(Half(se.ssTax + se.medicareTax)),
                            caches)

\* 1) income
QuarterlyIncome(q, investmentIncomeGross, caches) ==
    QuarterlySe(
        [investmentIncomeGross |-> investmentIncomeGross,
         netInvestmentIncomeForNiit |->
            clamp0(investmentIncomeGross - q.netInvestmentIncomeAdjustmentsAnnual),
         earnedIncome |-> clamp0(q.netProfitAnnual + q.w2WagesAnnual),
         grossIncome |-> clamp0(q.netProfitAnnual + q.w2WagesAnnual + q.otherIncomeAnnual
                                + investmentIncomeGross)] @@ q,
        calcSelfEmploymentTax([filingStatus |-> q.filingStatus,
                               netProfitAnnual |-> q.netProfitAnnual,
                               w2WagesAnnual |-> q.w2WagesAnnual]),
        caches)

\* the free users' daily limit of the route
QuarterlyDailyLimit == 3

\* the handler: validation, entitlement, premium fields, daily limit, the computation.
\* req is the body, the entitlement (isPremium or the error reading it), today's count
\* of the user's simulations (or the error reading it) and the time
estimatedQuarterly(req, caches) ==
    IF ~ValidInput(req.body) THEN Answer(Failure(400, "Invalid input"), caches)
    ELSE IF req.dbError = "entitlement"
    THEN Answer(Failure(500, "Failed to load entitlement"), caches)
    ELSE IF ~req.isPremium /\ hasAnyPremiumFields(req.body)
    THEN Answer(Failure(403, "Premium required."), caches)
    ELSE IF ~req.isPremium /\ req.dbError = "count"
    THEN Answer(Failure(500, "Failed to check daily limit"), caches)
    ELSE IF ~req.isPremium /\ req.count >= QuarterlyDailyLimit
    THEN Answer(Failure(429, "Daily limit reached. Upgrade to simulate more."), caches)
    ELSE QuarterlyIncome(
             [isPremium |-> req.isPremium, now |-> req.now, body |-> req.body]
                @@ ParsedInput(req.body),
             clamp0(ParsedInput(req.body).interestIncomeAnnual
                    + ParsedInput(req.body).dividendIncomeAnnual
                    + ParsedInput(req.body).capitalGainsAnnual),
             caches)

(***************************************************************************)
(* seTax.ts: POST /calc/self-employment-tax                                *)
(***************************************************************************)
\* the free users' daily limit of the route
SeDailyLimit == 1

\* seTaxInputSchema.safeParse(body).success
ValidSeInput(body) ==
    /\ {"netProfit", "filingStatus"} \subseteq DOMAIN body
    /\ body.netProfit >= 0
    /\ Get(body, "w2Wages", 0) >= 0
    /\ body.filingStatus \in FilingStatuses

SeFreeKeys ==
    {"taxYear", "filingStatus", "netProfit", "w2Wages", "netEarnings", "seTax",
     "deductibleHalf", "total"}

\* premium: { tier, simulationId, ...computed }; free: only the essentials
SeResponse(req, computed) ==
    IF computed.threw THEN Failure(500, "Failed to calculate")
    ELSE [status |-> 200, tier |-> IF req.isPremium THEN "premium" ELSE "free",
          simulationId |-> req.simulationId]
         @@ [k \in IF req.isPremium THEN DOMAIN computed \ {"threw"} ELSE SeFreeKeys |->
                computed[k]]

\* the handler; req is the body, the entitlement (isPremium or the error reading it),
\* today's count of the user's simulations (or the error reading it) and the id the
\* insert returns ("" when it fails)
selfEmploymentTax(req) ==
    IF ~ValidSeInput(req.body) THEN Failure(400, "Invalid input")
    ELSE IF req.dbError = "entitlement" THEN Failure(500, "Failed to load entitlement")
    ELSE IF ~req.isPremium /\ req.dbError = "count"
    THEN Failure(500, "Failed to check daily limit")
    ELSE IF ~req.isPremium /\ req.count >= SeDailyLimit
    THEN Failure(429, "Daily limit reached. Upgrade to simulate more.")
    ELSE SeResponse(req,
             computeSelfEmploymentTax([netProfit |-> req.body.netProfit,
                                       w2Wages |-> Get(req.body, "w2Wages", 0),
                                       filingStatus |-> req.body.filingStatus,
                                       taxYear |-> SeTaxYear]))

(***************************************************************************)
(* Inputs of the endpoints                                                 *)
(***************************************************************************)
PerStatus(single, mfj) == [fs \in FilingStatuses |-> IF fs = "mfj" THEN mfj ELSE single]

EitcRow(phaseInRate, maxCredit, phaseOutStart) ==
    [phaseInRate |-> phaseInRate, maxCredit |-> Dollars(maxCredit),
     phaseOutStart |-> Dollars(phaseOutStart), phaseOutRate |-> 1598]

\* the premium blocks of federal/2026.json
PremiumBlocks ==
    [itemized |-> [saltCap |-> Dollars(10000)],
     qbi |-> [rate |-> 2000,
              threshold |-> PerStatus(Dollars(197300), Dollars(394600)),
              phaseoutRange |-> PerStatus(Dollars(50000), Dollars(100000))],
     niit |-> [rate |-> 380, threshold |-> PerStatus(Dollars(200000), Dollars(250000))],
     ctc |-> [perQualifyingChild |-> Dollars(2000), perOtherDependent |-> Dollars(500),
              phaseoutStart |-> PerStatus(Dollars(200000), Dollars(400000)),
              phaseoutStep |-> Dollars(1000), phaseoutAmountPerStep |-> Dollars(50),
              maxRefundablePerChild |-> Dollars(1700)],
     eitc |-> [investmentIncomeLimit |-> Dollars(11950),
               table |-> [key \in {EitcKey(fs, k) : fs \in {"single", "mfj"}, k \in 0..2} |->
                            IF key[2] = 0 THEN EitcRow(765, 649, 10620)
                            ELSE EitcRow(3400, 4328, 23350)]],
     ca |-> [calEitcTable |-> [k \in 0..2 |->
                                 [maxCredit |-> Dollars(300 + 1700 * k),
                                  phaseOutStart |-> Dollars(5000), phaseOutRate |-> 1000]],
             yctc |-> [amount |-> Dollars(1189), incomeLimit |-> Dollars(30931)]]]

\* federal/2026.json with the premium blocks, without them, and with a QBI block that
\* has no phase-out range
EndpointFederalFiles ==
    {PremiumBlocks @@ FederalFile(FEDERAL_BRACKETS_2026_SINGLE, TRUE),
     FederalFile(FEDERAL_BRACKETS_2026_SINGLE, TRUE)}

\* federal_constants.json with the 2025 and 2026 blocks, and without the seTax blocks
EndpointConstantsFiles ==
    {[y \in {2025, 2026} |-> [seTax |-> SeTaxConstants(Dollars(168600), FilingStatuses)]],
     [y \in {2025, 2026} |-> [version |-> "1"]]}

\* the time of a request: before the first due date, on it, after it, ..., after the last
RequestTimes == {50, 105, 106, 200, 300, 400}

\* what a request finds in the database
Environment(isPremium, count, dbError, now) ==
    [isPremium |-> isPremium, count |-> count, dbError |-> dbError, now |-> now,
     simulationId |-> "7"]

FreeBodies ==
    {[filingStatus |-> fs, state |-> s, netProfitAnnual |-> n] @@ o :
        fs \in FilingStatuses, s \in {"CA", "TX", " ny "},
        n \in {0, Dollars(40000), Dollars(300000)},
        o \in {EmptyObject,
               [otherIncomeAnnual |-> Dollars(10000), withholdingAnnual |-> Dollars(5000)]}}

\* bodies the schema rejects
InvalidBodies ==
    {[filingStatus |-> "single", state |-> "CA", netProfitAnnual |-> -1],
     [filingStatus |-> "single", state |-> "CA"],
     [filingStatus |-> "widow", state |-> "CA", netProfitAnnual |-> 0],
     [filingStatus |-> "single", state |-> "C", netProfitAnnual |-> 0],
     [filingStatus |-> "single", state |-> "CA", netProfitAnnual |-> 0,
      priorYearAgi |-> -1]}

\* the safe-harbor fields: prior-year tax and AGI around the two thresholds
SafeHarborFields ==
    {t @@ a @@ s @@ p :
        t \in {[priorYearTotalTax |-> 0], [priorYearTotalTax |-> Dollars(20000)],
               [priorYearTotalTax |-> 12345670]},
        a \in {EmptyObject, [priorYearAgi |-> 0]}
              \cup {[priorYearAgi |-> Dollars(75000) + d] : d \in {0, 10}}
              \cup {[priorYearAgi |-> Dollars(150000) + d] : d \in {0, 10}}
              \cup {[priorYearAgi |-> Dollars(160000)]},
        s \in {EmptyObject, [strategy |-> "safeHarbor"]},
        p \in {[paymentsMadeYtdAnnual |-> Dollars(6000)],
               [usePerQuarterPayments |-> TRUE, paymentsMadeQ1 |-> Dollars(5500),
                paymentsMadeQ3 |-> Dollars(1000), withholdingAnnual |-> Dollars(2000)]}}

SafeHarborBodies ==
    {[filingStatus |-> fs, state |-> "TX", netProfitAnnual |-> Dollars(40000)] @@ f :
        fs \in {"single", "mfs"}, f \in SafeHarborFields}

QbiBodies ==
    {[filingStatus |-> fs, state |-> "CA", netProfitAnnual |-> n,
      qbiBusinessType |-> t, qbiW2WagesAnnual |-> w,
      qbiQualifiedPropertyUbiaAnnual |-> u, capitalGainsAnnual |-> g] :
        fs \in {"single", "mfj"},
        n \in {Dollars(40000), Dollars(240000), Dollars(300000)},
        t \in {"nonSstb", "sstb"}, w \in {0, Dollars(20000)}, u \in {0, Dollars(100000)},
        g \in {0, Dollars(10000)}}

CreditBodies ==
    {[filingStatus |-> fs, state |-> s, netProfitAnnual |-> n, qualifyingChildren |-> k,
      otherDependents |-> d, caHasYoungChild |-> y] :
        fs \in {"single", "mfj"}, s \in {"CA", "TX"},
        n \in {Dollars(10000), Dollars(40000), Dollars(300000)},
        k \in {0, 1, 2, 4}, d \in {0, 1}, y \in BOOLEAN}

OtherPremiumBodies ==
    {[filingStatus |-> "single", state |-> s, netProfitAnnual |-> Dollars(150000)] @@ f :
        s \in {"CA", "NY"},
        f \in {[useItemized |-> TRUE, itemizedSaltPaidAnnual |-> Dollars(15000),
                itemizedMortgageInterestAnnual |-> Dollars(12000),
                itemizedCharityAnnual |-> Dollars(3000)],
               [useItemized |-> TRUE, itemizedSaltPaidAnnual |-> Dollars(4000)],
               [interestIncomeAnnual |-> Dollars(5000), dividendIncomeAnnual |-> Dollars(5000),
                capitalGainsAnnual |-> Dollars(60000),
                netInvestmentIncomeAdjustmentsAnnual |-> Dollars(1000)],
               [w2WagesAnnual |-> Dollars(100000), hsaContributionAnnual |-> Dollars(4000),
                iraContributionAnnual |-> Dollars(7000),
                solo401kEmployeeAnnual |-> Dollars(23000),
                solo401kEmployerAnnual |-> Dollars(20000),
                otherAdjustmentsAnnual |-> Dollars(1000)]}}

QuarterlyRequest(body, env) == [fn |-> "estimatedQuarterly", body |-> body] @@ env

QuarterlyCalls ==
    {QuarterlyRequest(b, Environment(p, c, "none", 200)) :
        b \in FreeBodies, p \in BOOLEAN, c \in {0, QuarterlyDailyLimit}}
    \cup {QuarterlyRequest(b, Environment(TRUE, 0, "none", t)) :
            b \in SafeHarborBodies, t \in RequestTimes}
    \cup {QuarterlyRequest(b, Environment(p, 0, "none", 200)) :
            b \in QbiBodies \cup CreditBodies \cup OtherPremiumBodies, p \in BOOLEAN}
    \cup {QuarterlyRequest(b, Environment(p, 0, e, 200)) :
            b \in {[filingStatus |-> "single", state |-> "CA",
                    netProfitAnnual |-> Dollars(40000)]} \cup InvalidBodies,
            p \in BOOLEAN, e \in {"none", "entitlement", "count"}}

SeRequests ==
    {[fn |-> "selfEmploymentTax", body |-> [netProfit |-> n, filingStatus |-> fs] @@ w]
     @@ Environment(p, c, e, 200) :
        n \in {0, Dollars(50000), Dollars(300000)}, fs \in FilingStatuses,
        w \in {EmptyObject, [w2Wages |-> Dollars(150000)]},
        p \in BOOLEAN, c \in {0, SeDailyLimit}, e \in {"none"}}
    \cup
    {[fn |-> "selfEmploymentTax", body |-> b] @@ Environment(p, 0, e, 200) :
        b \in {[netProfit |-> Dollars(50000), filingStatus |-> "single"],
               [netProfit |-> -1, filingStatus |-> "single"],
               [netProfit |-> 0, filingStatus |-> "single", w2Wages |-> -1],
               [filingStatus |-> "single"]},
        p \in BOOLEAN, e \in {"none", "entitlement", "count"}}

(***************************************************************************)
(* Specification of the endpoints                                          *)
(***************************************************************************)
InitEndpoints ==
    /\ \/ /\ args \in SimulationCalls
          /\ compiled2026 \in {CompiledFile(ExampleTable),
                               CompiledFile(FEDERAL_BRACKETS_2026_SINGLE)}
          /\ federal2026 \in ScenarioFederalFiles
          /\ federalConstants = NoFederalConstants
       \/ /\ args \in QuarterlyCalls
          /\ compiled2026 = CompiledFile(ExampleTable)
          /\ federal2026 \in EndpointFederalFiles
          /\ federalConstants \in EndpointConstantsFiles
       \/ /\ args \in SeRequests
          /\ compiled2026 = CompiledFile(ExampleTable)
          /\ federal2026 = FederalFile(FEDERAL_BRACKETS_2026_SINGLE, TRUE)
          /\ federalConstants \in EndpointConstantsFiles
    /\ compiledBase2026 = ScenarioBaseFile
    /\ RULES_CACHE = EmptyCache
    /\ CACHE = EmptyCache
    /\ simulations = <<>>
    /\ res = NoResult
    /\ pc = "call"

\* what the client gets, and the two module caches after the request
QuarterlyAnswers(r) ==
    /\ res' = r.response
    /\ RULES_CACHE' = r.caches.rules
    /\ CACHE' = r.caches.base

EstimatedQuarterly ==
    /\ pc = "call" /\ args.fn = "estimatedQuarterly"
    /\ QuarterlyAnswers(estimatedQuarterly(args, [rules |-> RULES_CACHE, base |-> CACHE]))
    /\ pc' = "done"
    /\ UNCHANGED <<Data, args>>

SelfEmploymentTax ==
    /\ pc = "call" /\ args.fn = "selfEmploymentTax"
    /\ res' = selfEmploymentTax(args)
    /\ pc' = "done"
    /\ UNCHANGED <<Data, RULES_CACHE, CACHE, args>>

NextEndpoints == ComputeSimulation \/ EstimatedQuarterly \/ SelfEmploymentTax

SpecEndpoints == InitEndpoints /\ [][NextEndpoints]_vars

(***************************************************************************)
(* Claims about the endpoints                                              *)
(***************************************************************************)
QuarterlyReturned == pc = "done" /\ args.fn = "estimatedQuarterly" /\ res.status = 200
SeRouteReturned == pc = "done" /\ args.fn = "selfEmploymentTax" /\ res.status = 200

\* the taxes and net incomes of both paths computeSimulation returns
SimulationAmounts ==
    {res.w2.federalTax, res.w2.stateTax, res.w2.ficaTax, res.w2.netIncome,
     res.se.federalTax, res.se.stateTax, res.se.seTax, res.se.netIncome}

\* the amounts of a penalty-risk block
PenaltyRiskAmounts(risk) ==
    {risk.safeHarborRequiredAnnual, risk.safeHarborRequiredToDate, risk.paidToDate}
    \cup UNION {{risk.underpaymentByQuarter[k].requiredByDueDate,
                 risk.underpaymentByQuarter[k].paidByDueDate,
                 risk.underpaymentByQuarter[k].underpayment} : k \in 1..4}

\* the amounts of the quarterly estimate's response
QuarterlyAmounts ==
    {res.annual[k] : k \in DOMAIN res.annual}
    \cup {res.quarterly[k].amount : k \in 1..4}
    \cup {res.pie.values[k] : k \in 1..Len(res.pie.values)}
    \cup (IF "penaltyRisk" \in DOMAIN res THEN PenaltyRiskAmounts(res.penaltyRisk) ELSE {})

\* C1: for non-negative inputs no monetary value returned by the comparison (the
\* federal, state, FICA and SE tax and the net income of both paths) or by the
\* quarterly estimate is negative; the 1099 net income is not negative either when
\* the expenses exceed income1099
C1_NonNegative ==
    /\ SimulationReturned => \A a \in SimulationAmounts : a >= 0
    /\ QuarterlyReturned => \A a \in QuarterlyAmounts : a >= 0

\* the two parts of the placeholder SE tax that are deductible by half
DeductibleParts(inputs) ==
    SeTaxParts_placeholder(netProfit(inputs)).ss + SeTaxParts_placeholder(netProfit(inputs)).med

\* the SE tax of the request, as the quarterly route computes it
QuarterlySeTax ==
    calcSelfEmploymentTax([filingStatus |-> args.body.filingStatus,
                           netProfitAnnual |-> args.body.netProfitAnnual,
                           w2WagesAnnual |-> 0])

\* C5: wherever the self-employment deduction is taken, the deductible half is
\* (ssTax + medicareTax) * 0.5 and holds no part of the additional Medicare tax:
\* at the SE-tax endpoint (the returned half is half the returned seTax, which is
\* ssTax + medicareTax), in the quarterly estimate (the taxable income of a free
\* request is the gross income less that half and the standard deduction), and on
\* the 1099 path of the comparison (agi = clamp0(netProfit - half), which the
\* federal tax is computed from)
C5_DeductibleHalf ==
    /\ SeRouteReturned =>
          /\ Abs(2 * res.deductibleHalf - res.seTax) <= 20
          /\ res.tier = "premium" => Abs(res.seTax - (res.ssTax + res.medicareTax)) <= 10
    /\ (QuarterlyReturned /\ res.tier = "free") =>
          res.annual.taxableIncomeFederal =
             round2(clamp0(round2(clamp0(
                        args.body.netProfitAnnual + Get(args.body, "otherIncomeAnnual", 0)
                        - round2(Half(QuarterlySeTax.ssTax + QuarterlySeTax.medicareTax))))
                    - getStandardDeduction(args.body.filingStatus)))
    /\ SimulationReturned =>
          /\ halfSeDeduction(args.input) = Half(DeductibleParts(args.input))
          /\ res.se.federalTax =
                calcFederalTaxFromTaxableIncome_single_placeholder(
                    Max(0, clamp0(netProfit(args.input) - Half(DeductibleParts(args.input)))
                           - res.standardDeductionUsed.value))

\* the multiplier the claim states for the request
StatedMultiplier ==
    IF Get(args.body, "priorYearAgi", 0)
          > (IF args.body.filingStatus = "mfs" THEN Dollars(75000) ELSE Dollars(150000))
    THEN 11000 ELSE RateDen

\* the annual requirement the claim states for the request
StatedSafeHarborAnnual == round2(MulRate(args.body.priorYearTotalTax, StatedMultiplier))

\* a premium request with prior-year tax has been answered
SafeHarborReturned ==
    /\ QuarterlyReturned /\ args.isPremium
    /\ Get(args.body, "priorYearTotalTax", 0) > 0

\* C9: the safe-harbor multiplier is 1.1 exactly when the prior-year AGI is above
\* 150,000 (75,000 for married filing separately) and 1.0 otherwise, also without
\* a prior-year AGI or with one of zero; the annual requirement is the prior-year
\* total tax times the multiplier, rounded to cents; it is what the penalty-risk
\* block reports and, under the safe-harbor strategy, what the four payments are
\* a quarter of after withholding
C9_SafeHarborRequirement ==
    SafeHarborReturned =>
        /\ "penaltyRisk" \in DOMAIN res <=> StatedSafeHarborAnnual > 0
        /\ "penaltyRisk" \in DOMAIN res =>
              res.penaltyRisk.safeHarborRequiredAnnual = StatedSafeHarborAnnual
        /\ Get(args.body, "strategy", "currentYear") = "safeHarbor" =>
              \A k \in 1..4 :
                 res.quarterly[k].amount =
                    round2(DivRound(round2(clamp0(StatedSafeHarborAnnual
                               - Get(args.body, "withholdingAnnual", 0))), 4))

\* a single filer with a prior-year AGI of 160,000 and a prior-year tax of 20,000
\* is required 22,000.00
C9_Witness ==
    /\ SafeHarborReturned
    /\ args.body.filingStatus = "single"
    /\ Get(args.body, "priorYearAgi", 0) = Dollars(160000)
    /\ args.body.priorYearTotalTax = Dollars(20000)
    /\ res.penaltyRisk.safeHarborRequiredAnnual = Dollars(22000)
    /\ Get(args.body, "strategy", "currentYear") = "safeHarbor"
    /\ res.quarterly[1].amount = Dollars(5500)

(***************************************************************************)
(* Specification of the premium calculators                                *)
(***************************************************************************)
\* the QBI block with another phase-out range, or with none
QbiBlockWith(range) ==
    [rate |-> 2000, threshold |-> PerStatus(Dollars(197300), Dollars(394600))] @@ range

\* federal/2026.json with the premium blocks, with a QBI block that names no
\* threshold and no phase-out range, with a QBI block whose phase-out range is zero,
\* negative or absent, and without the blocks
PremiumFederalFiles ==
    EndpointFederalFiles
    \cup {[qbi |-> [rate |-> 2000]] @@ FederalFile(FEDERAL_BRACKETS_2026_SINGLE, TRUE)}
    \cup {[qbi |-> QbiBlockWith(range)] @@ FederalFile(FEDERAL_BRACKETS_2026_SINGLE, TRUE) :
             range \in {EmptyObject,
                        [phaseoutRange |-> PerStatus(0, 0)],
                        [phaseoutRange |-> PerStatus(0 - Dollars(50000),
                                                     0 - Dollars(100000))]}}

\* taxable incomes at, around and far from the threshold and the end of the phase-out
\* of a single filer, and the amounts the route can pass with them
QbiCalls ==
    {[fn |-> "calcQbiDeduction",
      p |-> [filingStatus |-> fs, qbiBase |-> b, taxableBeforeQbi |-> t,
             netCapitalGains |-> g, businessType |-> bt, w2Wages |-> w, ubia |-> u]] :
        fs \in {"single", "mfj"},
        b \in {0, Dollars(50000), Dollars(120000)},
        t \in {0, Dollars(80000), Dollars(197300), Dollars(197300) + 10, Dollars(220000),
               Dollars(247300), Dollars(300000), Dollars(400000)},
        g \in {0, Dollars(10000), Dollars(90000)},
        bt \in {"nonSstb", "sstb"},
        w \in {0, Dollars(20000), Dollars(100000)},
        u \in {0, Dollars(500000)}}

\* investment income around the NIIT threshold of a single filer
NiitCalls ==
    {[fn |-> "calcNiit",
      p |-> [filingStatus |-> fs, magi |-> m, netInvestmentIncome |-> n]] :
        fs \in {"single", "mfj"},
        m \in {0, Dollars(200000), Dollars(200000) + 10, Dollars(230000), Dollars(400000)},
        n \in {0, Dollars(5000), Dollars(50000)}}

\* children and dependents with incomes around the start of the phase-out
ChildCreditCalls ==
    {[fn |-> "calcChildCredits",
      p |-> [filingStatus |-> fs, magi |-> m, federalTaxBeforeCredits |-> t,
             qualifyingChildren |-> k, otherDependents |-> d]] :
        fs \in {"single", "mfj"},
        m \in {Dollars(50000), Dollars(200000), Dollars(200000) + 10, Dollars(201000),
               Dollars(250000), Dollars(500000)},
        t \in {0, Dollars(1000), Dollars(10000)},
        k \in 0..3, d \in 0..1}

EitcCalls ==
    {[fn |-> "calcEitc",
      p |-> [filingStatus |-> fs, earnedIncome |-> e, agi |-> a, children |-> k,
             investmentIncome |-> i]] :
        fs \in {"single", "mfs"},
        e \in {0, Dollars(5000), Dollars(15000), Dollars(60000)},
        a \in {Dollars(5000), Dollars(20000)},
        k \in {0, 1, 4},
        i \in {0, Dollars(11950), Dollars(11950) + 10}}

CaCreditCalls ==
    {[fn |-> "calcCaCredits",
      p |-> [state |-> s, earnedIncome |-> e, qualifyingChildren |-> k,
             hasYoungChild |-> y]] :
        s \in {"CA", "TX"},
        e \in {0, Dollars(4000), Dollars(20000), Dollars(30931), Dollars(30931) + 10,
               Dollars(60000)},
        k \in {0, 1, 2, 3, 5},
        y \in BOOLEAN}

\* annual requirements, withholding and payments (a year-to-date total, or the four
\* quarters one by one) at times before, on and after the due dates
PenaltyRiskCalls ==
    {[fn |-> "buildPenaltyRiskLite",
      p |-> [safeHarborRequiredAnnual |-> sh, withholdingAnnual |-> w] @@ paid,
      now |-> t] :
        sh \in {10, Dollars(10000), 12345670},
        w \in {0, 1010, Dollars(2000)},
        paid \in {[usePerQuarterPayments |-> FALSE, paymentsMadeYtdAnnual |-> y,
                   paymentsMadeQ1 |-> 0, paymentsMadeQ2 |-> 0,
                   paymentsMadeQ3 |-> 0, paymentsMadeQ4 |-> 0] :
                        y \in {0, 100010, Dollars(6000), Dollars(12000)}}
                  \cup {[usePerQuarterPayments |-> TRUE, paymentsMadeYtdAnnual |-> 0,
                         paymentsMadeQ1 |-> q1, paymentsMadeQ2 |-> q2,
                         paymentsMadeQ3 |-> q3, paymentsMadeQ4 |-> q4] :
                            q1 \in {0, Dollars(2500)}, q2 \in {0, Dollars(2500), Dollars(5000)},
                            q3 \in {0, Dollars(2500)}, q4 \in {0, 3086420}},
        t \in RequestTimes}

InitPremium ==
    /\ args \in QbiCalls \cup NiitCalls \cup ChildCreditCalls \cup EitcCalls
                \cup CaCreditCalls \cup PenaltyRiskCalls
    /\ federal2026 \in PremiumFederalFiles
    /\ compiled2026 = NoCompiledFile
    /\ compiledBase2026 = NoBaseFile
    /\ federalConstants = NoFederalConstants
    /\ RULES_CACHE = EmptyCache
    /\ CACHE = EmptyCache
    /\ simulations = <<>>
    /\ res = NoResult
    /\ pc = "call"

\* what a calculator hands back: a bare number (calcQbiDeduction, calcNiit) or an
\* object that carries notes with its amounts
Returned(returns, value) == [threw |-> FALSE, returns |-> returns, value |-> value]

CalcQbiDeduction ==
    /\ pc = "call" /\ args.fn = "calcQbiDeduction"
    /\ res' = Returned("number", calcQbiDeduction(args.p))
    /\ pc' = "done"
    /\ UNCHANGED <<Data, RULES_CACHE, CACHE, args>>

CalcNiit ==
    /\ pc = "call" /\ args.fn = "calcNiit"
    /\ res' = Returned("number", calcNiit(args.p))
    /\ pc' = "done"
    /\ UNCHANGED <<Data, RULES_CACHE, CACHE, args>>

CalcChildCredits ==
    /\ pc = "call" /\ args.fn = "calcChildCredits"
    /\ res' = Returned("object", calcChildCredits(args.p))
    /\ pc' = "done"
    /\ UNCHANGED <<Data, RULES_CACHE, CACHE, args>>

CalcEitc ==
    /\ pc = "call" /\ args.fn = "calcEitc"
    /\ res' = Returned("object", calcEitc(args.p))
    /\ pc' = "done"
    /\ UNCHANGED <<Data, RULES_CACHE, CACHE, args>>

CalcCaCredits ==
    /\ pc = "call" /\ args.fn = "calcCaCredits"
    /\ res' = Returned("object", calcCaCredits(args.p))
    /\ pc' = "done"
    /\ UNCHANGED <<Data, RULES_CACHE, CACHE, args>>

BuildPenaltyRiskLite ==
    /\ pc = "call" /\ args.fn = "buildPenaltyRiskLite"
    /\ res' = Returned("object", buildPenaltyRiskLite(args.p, args.now))
    /\ pc' = "done"
    /\ UNCHANGED <<Data, RULES_CACHE, CACHE, args>>

NextPremium ==
    \/ CalcQbiDeduction
    \/ CalcNiit
    \/ CalcChildCredits
    \/ CalcEitc
    \/ CalcCaCredits
    \/ BuildPenaltyRiskLite

SpecPremium == InitPremium /\ [][NextPremium]_vars

\* calcQbiDeduction has returned for a taxable income at or below the threshold the
\* constants name for the filing status
QbiBelowThreshold ==
    /\ pc = "done" /\ args.fn = "calcQbiDeduction"
    /\ "qbi" \in DOMAIN federal2026
    /\ "threshold" \in DOMAIN federal2026.qbi
    /\ args.p.filingStatus \in DOMAIN federal2026.qbi.threshold
    /\ args.p.taxableBeforeQbi <= federal2026.qbi.threshold[args.p.filingStatus]

\* C7: when taxableBeforeQbi <= threshold[filingStatus] the QBI deduction is
\* min(qbiBase * rate, rate * clamp0(taxableBeforeQbi - netCapitalGains)), both to
\* cents: the W-2 wages, the UBIA and the SSTB flag have no part in it, so two runs
\* that differ only in those three return the same deduction
C7_QbiBelowThreshold ==
    QbiBelowThreshold =>
        res.value =
           Min(round2(MulRate(args.p.qbiBase, federal2026.qbi.rate)),
               round2(MulRate(clamp0(args.p.taxableBeforeQbi - args.p.netCapitalGains),
                              federal2026.qbi.rate)))

\* qbiBase 50000, taxableBeforeQbi 80000, no gains, rate 0.20: 10000, for an SSTB
\* without wages or property, whose wage limit is 0
C7_Witness ==
    /\ QbiBelowThreshold
    /\ args.p.qbiBase = Dollars(50000) /\ args.p.taxableBeforeQbi = Dollars(80000)
    /\ args.p.netCapitalGains = 0 /\ federal2026.qbi.rate = 2000
    /\ args.p.businessType = "sstb" /\ args.p.w2Wages = 0 /\ args.p.ubia = 0
    /\ res.value = Dollars(10000)

(***************************************************************************)
(* Claims on rules, conformity and deductions                              *)
(***************************************************************************)
RuleEvaluated == pc = "done" /\ args.fn = "evalRule"

\* the sequence holds the entry
Holds(seq, entry) == \E i \in 1..Len(seq) : seq[i] = entry

\* the rule is switched off, or flagged as lacking detail
RuleDisabled(rule) == Get(rule, "enabled", TRUE) = FALSE
RuleNeedsDetail(rule) == Get(rule, "status", "ok") = "needs_detail"

\* a comparison node whose path getPath resolves to undefined or null
UnresolvableComparison(e, ctx) ==
    /\ "op" \in DOMAIN e /\ e.op \in ComparisonOps
    /\ IsNullish(getPath(IF "path" \in DOMAIN e THEN e.path ELSE UndefinedPath, ctx))

\* some entry of the two lists names the rule
RuleIssueRecorded(r, rule) ==
    \/ \E i \in 1..Len(r.warnings) : r.warnings[i][2] = rule.id
    \/ Holds(r.missingInputs, rule.id)

\* C11: each soft rule-evaluation issue (a rule with enabled = false, a rule with
\* status needs_detail, an unsupported operator, a missing optional fact read by a
\* value node or by a comparison) makes the rule or sub-expression contribute 0,
\* the computation completes, and the returned warnings or missingInputs hold an
\* entry that identifies the issue.
C11_SoftIssuesRecorded ==
    /\ RuleEvaluated /\ (RuleDisabled(args.rule) \/ RuleNeedsDetail(args.rule)) =>
          /\ ~res.threw /\ ~res.applied /\ res.amount = 0
          /\ RuleIssueRecorded(res, args.rule)
    /\ ExprEvaluated /\ UnsupportedNode(args.expr) =>
          /\ ~res.threw /\ res.value = NumV(0)
          /\ Holds(res.warnings, <<"unsupported_op", Get(args.expr, "op", "undefined")>>)
    /\ ExprEvaluated /\ UnresolvableValue(args.expr, args.ctx) =>
          /\ ~res.threw /\ res.value = NumV(0)
          /\ Holds(res.missingInputs, Get(args.expr, "path", UndefinedPath))
    /\ ExprEvaluated /\ UnresolvableComparison(args.expr, args.ctx) =>
          /\ ~res.threw
          /\ res.value = BoolV(Compare(args.expr.op, NumV(0), Get(args.expr, "value", 0)))
          /\ Holds(res.missingInputs, Get(args.expr, "path", UndefinedPath))

(***************************************************************************)
(* Claims on the premium calculators                                       *)
(***************************************************************************)
\* the constants block each calculator reads from federal/2026.json
BlockOf ==
    [calcQbiDeduction |-> "qbi", calcNiit |-> "niit", calcChildCredits |-> "ctc",
     calcEitc |-> "eitc", calcCaCredits |-> "ca"]

\* a premium calculator has returned, and the file lacks its constants block
\* (calcCaCredits looks for its block only when the state is CA)
BlockAbsentReturned ==
    /\ pc = "done" /\ args.fn \in DOMAIN BlockOf
    /\ BlockOf[args.fn] \notin DOMAIN federal2026
    /\ args.fn = "calcCaCredits" => args.p.state = "CA"

\* the amounts of what was returned
ReturnedAmounts ==
    CASE res.returns = "number" -> {res.value}
      [] args.fn = "calcChildCredits" ->
            {res.value.ctcNonRefundableUsed, res.value.ctcRefundable,
             res.value.totalCreditsApplied}
      [] args.fn = "calcEitc" -> {res.value.credit}
      [] args.fn = "calcCaCredits" -> {res.value.caCredits}

\* the notes of what was returned: a bare number carries none
ReturnedNotes ==
    CASE res.returns = "number" -> <<>>
      [] args.fn = "calcEitc" -> <<res.value.note>>
      [] OTHER -> res.value.notes

\* C12: when the constants block of a premium calculator (QBI, NIIT, CTC, EITC, CA
\* credits) is absent, the calculator does not throw and returns an amount of 0
\* together with an explanatory note, for each of the five
C12_AbsentBlockNoted ==
    BlockAbsentReturned =>
        /\ ~res.threw
        /\ ReturnedAmounts = {0}
        /\ Len(ReturnedNotes) > 0 /\ \A i \in 1..Len(ReturnedNotes) : ReturnedNotes[i] # ""

(***************************************************************************)
(* Concurrent evaluations.  A worker serves several requests in one        *)
(* isolate: the module-level caches RULES_CACHE and CACHE are shared, and   *)
(* an evaluation can be suspended at each await.  calcStateTax and          *)
(* computeTaxableStateIncome are synchronous: one step.  computeSimulation  *)
(* awaits compareResultsNew and findBreakEven, and findBreakEven awaits     *)
(* compareResultsNew once for the baseline and once per round of its two    *)
(* loops: one step per awaited call, the locals of the suspended functions  *)
(* being kept in pc.  Here args, res and pc are functions of the            *)
(* evaluation.                                                              *)
(***************************************************************************)
Evaluations == {1, 2}

ConcurrentScenarios ==
    {[w2Salary |-> Dollars(50000), income1099 |-> Dollars(60000), expenses |-> 0,
      state |-> s] : s \in {"CA", "NY", "OR"}}
    \cup {[w2Salary |-> w, income1099 |-> Dollars(1000),
           expenses |-> Dollars(5000), state |-> "TX"] : w \in {0, Dollars(100)}}

ConcurrentCalls ==
    {[fn |-> "calcStateTax", year |-> 2026, state |-> s, filingStatus |-> "single",
      taxableIncome |-> Dollars(50000)] : s \in {"CA", "IL"}}
    \cup {[fn |-> "computeTaxableStateIncome", year |-> 2026, state |-> s,
           filingStatus |-> "single", federalAGI |-> Dollars(50000)] : s \in {"CA", "NY"}}
    \cup {[fn |-> "computeSimulation", input |-> i] : i \in ConcurrentScenarios}

AtCall == [at |-> "call"]
AtDone == [at |-> "done"]

InitConcurrent ==
    /\ args \in [Evaluations -> ConcurrentCalls]
    /\ compiled2026 = CompiledFile(ExampleTable)
    /\ compiledBase2026 = ScenarioBaseFile
    /\ federal2026 = FederalFile(FEDERAL_BRACKETS_2026_SINGLE, TRUE)
    /\ federalConstants = NoFederalConstants
    /\ RULES_CACHE = EmptyCache
    /\ CACHE = EmptyCache
    /\ simulations = <<>>
    /\ res = [e \in Evaluations |-> NoResult]
    /\ pc = [e \in Evaluations |-> AtCall]

SharedCaches == [rules |-> RULES_CACHE, base |-> CACHE]

\* the evaluation e returns r
Returns(e, r) ==
    /\ res' = [res EXCEPT ![e] = r]
    /\ pc' = [pc EXCEPT ![e] = AtDone]

\* the evaluation e is suspended at an await with the locals f
Suspends(e, f) ==
    /\ pc' = [pc EXCEPT ![e] = f]
    /\ res' = res

StateTaxReturns(e, r) ==
    /\ RULES_CACHE' = r.cache
    /\ Returns(e, r.result)

StateTaxEvaluation(e) ==
    /\ pc[e] = AtCall /\ args[e].fn = "calcStateTax"
    /\ StateTaxReturns(e, calcStateTax(args[e], RULES_CACHE))
    /\ UNCHANGED <<Data, CACHE, args>>

TaxableReturns(e, r) ==
    /\ CACHE' = r.cache
    /\ Returns(e, [f \in DOMAIN r \ {"cache"} |-> r[f]])

TaxableEvaluation(e) ==
    /\ pc[e] = AtCall /\ args[e].fn = "computeTaxableStateIncome"
    /\ TaxableReturns(e, computeTaxableStateIncome(args[e], CACHE))
    /\ UNCHANGED <<Data, RULES_CACHE, args>>

\* a compareResultsNew call of the evaluation e has returned r: the caches are as the
\* call left them, a throw ends the evaluation, and otherwise it goes on as f
Compared(e, r, f) ==
    /\ RULES_CACHE' = r.caches.rules
    /\ CACHE' = r.caches.base
    /\ IF r.threw THEN Returns(e, [threw |-> TRUE, error |-> r.error])
       ELSE IF f.at = "done" THEN Returns(e, f.result)
       ELSE Suspends(e, f)

\* const results = await compareResultsNew(input, year, standardDeduction)
SimulationCompares(e, year, stdDed, r) ==
    Compared(e, r,
        [at |-> "compared", year |-> year, stdDed |-> stdDed,
         results |-> [f \in DOMAIN r \ {"caches"} |-> r[f]]])

SimulationStarts(e) ==
    /\ pc[e] = AtCall /\ args[e].fn = "computeSimulation"
    /\ SimulationCompares(e, Get(args[e].input, "year", 2026),
           getStandardDeductionWithMeta(Get(args[e].input, "year", 2026)),
           compareResultsNew(args[e].input, Get(args[e].input, "year", 2026),
               getStandardDeductionWithMeta(Get(args[e].input, "year", 2026)).value,
               SharedCaches))
    /\ UNCHANGED <<Data, args>>

\* the parameters computeSimulation passes to findBreakEven
SearchOf(e) ==
    [year |-> pc[e].year, w2Salary |-> args[e].input.w2Salary,
     state |-> args[e].input.state, expenses |-> args[e].input.expenses,
     standardDeduction |-> pc[e].stdDed.value]

\* findBreakEven: const baseline = await compareResultsNew({..., income1099: 0}, ...)
SearchBaseline(e) ==
    /\ pc[e].at = "compared"
    /\ LET r == compareResultsNew(SearchInputs(SearchOf(e), 0), pc[e].year,
                                  pc[e].stdDed.value, SharedCaches)
       IN  Compared(e, r,
               [at |-> "doubling", i |-> 0, low |-> 0,
                high |-> Max(Dollars(1), args[e].input.w2Salary * 5),
                targetNet |-> IF r.threw THEN 0 ELSE r.w2.netIncome]
               @@ pc[e])
    /\ UNCHANGED <<Data, args>>

\* one round of the first loop; the second loop starts after a break or twelve rounds
SearchDoubles(e) ==
    /\ pc[e].at = "doubling"
    /\ LET r == compareResultsNew(SearchInputs(SearchOf(e), pc[e].high), pc[e].year,
                                  pc[e].stdDed.value, SharedCaches)
           reached == ~r.threw /\ r.se.netIncome >= pc[e].targetNet
       IN  Compared(e, r,
               IF reached THEN [at |-> "bisect", i |-> 0, mid |-> 0] @@ pc[e]
               ELSE IF pc[e].i + 1 >= DoublingRounds
               THEN [at |-> "bisect", i |-> 0, mid |-> 0, high |-> pc[e].high * 2] @@ pc[e]
               ELSE [i |-> pc[e].i + 1, high |-> pc[e].high * 2] @@ pc[e])
    /\ UNCHANGED <<Data, args>>

\* one round of the second loop; after the thirtieth findBreakEven returns mid and
\* computeSimulation returns
SearchBisects(e) ==
    /\ pc[e].at = "bisect"
    /\ LET mid == Midpoint(pc[e].low, pc[e].high)
           r == compareResultsNew(SearchInputs(SearchOf(e), mid), pc[e].year,
                                  pc[e].stdDed.value, SharedCaches)
           above == ~r.threw /\ r.se.netIncome >= pc[e].targetNet
           searched == SimulationSearched(pc[e].year, pc[e].stdDed, pc[e].results,
                           [threw |-> FALSE, value |-> mid, caches |-> EmptyObject])
       IN  Compared(e, r,
               IF pc[e].i + 1 >= BisectRounds
               THEN [at |-> "done",
                     result |-> [f \in DOMAIN searched \ {"caches"} |-> searched[f]]]
               ELSE [i |-> pc[e].i + 1, mid |-> mid,
                     low |-> IF above THEN pc[e].low ELSE mid,
                     high |-> IF above THEN mid ELSE pc[e].high] @@ pc[e])
    /\ UNCHANGED <<Data, args>>

NextConcurrent ==
    \E e \in Evaluations :
        \/ StateTaxEvaluation(e)
        \/ TaxableEvaluation(e)
        \/ SimulationStarts(e)
        \/ SearchBaseline(e)
        \/ SearchDoubles(e)
        \/ SearchBisects(e)

SpecConcurrent == InitConcurrent /\ [][NextConcurrent]_vars

\* what the call returns when it runs alone, from the caches as they are after import
Alone(call) ==
    CASE call.fn = "calcStateTax" -> calcStateTax(call, EmptyCache).result
      [] call.fn = "computeTaxableStateIncome" ->
            LET r == computeTaxableStateIncome(call, EmptyCache)
            IN  [f \in DOMAIN r \ {"cache"} |-> r[f]]
      [] call.fn = "computeSimulation" ->
            LET r == computeSimulation(call.input, [rules |-> EmptyCache, base |-> EmptyCache])
            IN  [f \in DOMAIN r \ {"caches"} |-> r[f]]

\* every evaluation that has returned returned what it returns alone
IndependentResults == \A e \in Evaluations : pc[e] = AtDone => res[e] = Alone(args[e])

\* a step leaves both module-level caches as they were
CachesUntouched == RULES_CACHE' = RULES_CACHE /\ CACHE' = CACHE

\* C13: no shared mutable state is written while a tax computation runs: under every
\* interleaving of concurrent evaluations (state tax, state base pipeline, scenario
\* comparison) no step of a computation modifies a module-level ruleset cache, and
\* each evaluation returns what it returns when it runs alone
C13_NoSharedWrites == [][CachesUntouched]_vars /\ []IndependentResults

\* applyStateConformity or applyStateDeductions is about to be called, or called again
ApplyCalled ==
    /\ pc \in {"call", "done"}
    /\ args.fn \in {"applyStateConformity", "applyStateDeductions"}

\* the call leaves the ruleset, the caller's context and its facts map as they were
ApplyLeavesObjects == ApplyCalled => args' = args

\* both calls have returned
AppliedTwice ==
    /\ pc = "again"
    /\ args.fn \in {"applyStateConformity", "applyStateDeductions"}

\* C14: applyStateConformity and applyStateDeductions are pure and idempotent: two
\* calls with the same amount, ruleset and context return equal value, applied,
\* warnings and missingInputs (or fail alike), and a call leaves the ruleset, the
\* caller's context object and its facts map unchanged
C14_ApplyPure ==
    /\ [][ApplyLeavesObjects]_vars
    /\ [](AppliedTwice => res.second = res.first)

\* a context with facts, rules that apply and record a warning, called twice
C14_Witness ==
    /\ AppliedTwice /\ args.fn = "applyStateConformity"
    /\ ~res.second.threw
    /\ Len(res.second.applied) = 2 /\ res.second.value > args.federalAGI
    /\ Len(res.second.warnings) > 0
    /\ args.ctx.input # EmptyObject

(***************************************************************************)
(* routes/calc.ts: POST /api/calc.  One user sends several requests in one  *)
(* day; the worker serves them concurrently, a handler being suspended at   *)
(* each await: the entitlement query, the count of today's simulations, the *)
(* computation, the insert and the snapshot update.  One step per awaited   *)
(* call, the handler's locals being kept in pc.  Every query can fail.      *)
(* Here args, res and pc are functions of the request.                      *)
(***************************************************************************)
\* const TAX_YEAR = 2025
CalcTaxYear == 2025

\* if ((count ?? 0) >= 1)
CalcDailyLimit == 1

\* the requests of the user in the day
MaxRequests == 2
CalcRequests == 1..MaxRequests

\* bodies: two that pass calcInputSchema, one with a negative amount, one whose state
\* is not two letters
CalcBodies ==
    {[w2Salary |-> Dollars(50000), income1099 |-> Dollars(60000), state |-> "CA"],
     [w2Salary |-> Dollars(100), income1099 |-> Dollars(1000),
      expenses |-> Dollars(5000), state |-> "TX"],
     [w2Salary |-> 0 - Dollars(1), income1099 |-> Dollars(1000), state |-> "CA"],
     [w2Salary |-> Dollars(100), income1099 |-> Dollars(1000), state |-> "California"]}

\* calcInputSchema.safeParse(body): amounts >= 0, expenses 0 by default, a state of
\* two letters once trimmed and upper-cased
calcInputSchema(body) ==
    IF body.w2Salary >= 0 /\ body.income1099 >= 0 /\ Get(body, "expenses", 0) >= 0
       /\ normalizeState(body.state) \in ScenarioStates
    THEN [success |-> TRUE,
          data |-> [w2Salary |-> body.w2Salary, income1099 |-> body.income1099,
                    state |-> normalizeState(body.state),
                    expenses |-> Get(body, "expenses", 0)]]
    ELSE [success |-> FALSE]

InitCalc ==
    /\ args \in [CalcRequests -> [body : CalcBodies]]
    /\ \E isPremium \in BOOLEAN :
          pc = [r \in CalcRequests |-> [at |-> "call", isPremium |-> isPremium]]
    /\ compiled2026 = CompiledFile(ExampleTable)
    /\ compiledBase2026 = ScenarioBaseFile
    /\ federal2026 \in ScenarioFederalFiles
    /\ federalConstants = NoFederalConstants
    /\ RULES_CACHE = EmptyCache
    /\ CACHE = EmptyCache
    /\ simulations = <<>>
    /\ res = [r \in CalcRequests |-> NoResult]

\* return c.json(body, status): the request is answered
CalcAnswers(r, status, body) ==
    /\ res' = [res EXCEPT ![r] = [status |-> status, body |-> body]]
    /\ pc' = [pc EXCEPT ![r] = [at |-> "done", isPremium |-> pc[r].isPremium]]

\* the handler goes on to its next await
CalcAwaits(r, f) ==
    /\ pc' = [pc EXCEPT ![r] = f]
    /\ UNCHANGED res

\* buildFreeResult({computed})
buildFreeResult(computed) ==
    [type |-> "freeSummaryResult",
     winner |-> IF computed.annualDifference >= 0 THEN "1099" ELSE "W2",
     annualDifference |-> computed.annualDifference,
     monthlyDifference |-> computed.monthlyDifference,
     breakEven1099Income |-> computed.breakEven1099Income,
     chart |-> <<computed.w2.netIncome, computed.se.netIncome>>,
     summary |-> computed.summary]

\* buildPremiumResult({computed, state, simulationId})
buildPremiumResult(computed, state, simulationId) ==
    [type |-> "premiumDetailedResult",
     winner |-> IF computed.annualDifference >= 0 THEN "1099" ELSE "W2",
     annualDifference |-> computed.annualDifference,
     monthlyDifference |-> computed.monthlyDifference,
     breakEven1099Income |-> computed.breakEven1099Income,
     federalTaxW2 |-> computed.w2.federalTax,
     stateTaxW2 |-> computed.w2.stateTax,
     ficaTaxW2 |-> computed.w2.ficaTax,
     federalTax1099 |-> computed.se.federalTax,
     stateTax1099 |-> computed.se.stateTax,
     selfEmploymentTax1099 |-> computed.se.seTax,
     deductionsApplied |->
        [standardDeduction |-> computed.standardDeductionUsed.value,
         halfSelfEmploymentTaxDeduction |-> Half(computed.se.seTax)],
     effectiveTaxRateW2 |-> computed.w2.effectiveTaxRate,
     effectiveTaxRate1099 |-> computed.se.effectiveTaxRate,
     assumptions |-> [year |-> computed.year, state |-> state,
                      standardDeduction |-> computed.standardDeductionUsed],
     recommendations |-> <<RoundDollar(computed.breakEven1099Income)>>,
     simulationId |-> simulationId,
     pdfAvailable |-> TRUE,
     chart |-> [valuesW2 |-> <<computed.w2.federalTax, computed.w2.stateTax,
                               computed.w2.ficaTax, computed.w2.netIncome>>,
                values1099 |-> <<computed.se.federalTax, computed.se.stateTax,
                                 computed.se.seTax, computed.se.netIncome>>],
     summary |-> computed.summary]

\* the result sent: premium, or free with the simulationId
CalcResult(f, simulationId) ==
    IF f.isPremium
    THEN buildPremiumResult(f.computed, f.data.state, simulationId)
    ELSE buildFreeResult(f.computed) @@ [simulationId |-> simulationId]

\* the body is parsed and checked, the state rules are looked up (a throw is caught
\* and logged), and the entitlement query is sent
CalcParsed(r, parsed, rules) ==
    IF ~parsed.success
    THEN CalcAnswers(r, 400, "Invalid input") /\ UNCHANGED RULES_CACHE
    ELSE IF ~rules.threw /\ ~rules.found
    THEN CalcAnswers(r, 400, "State rules not available") /\ UNCHANGED RULES_CACHE
    ELSE /\ CalcAwaits(r, [at |-> "entitlement", isPremium |-> pc[r].isPremium,
                           data |-> parsed.data])
         /\ RULES_CACHE' = rules.cache

CalcParses(r) ==
    /\ pc[r].at = "call"
    /\ CalcParsed(r, calcInputSchema(args[r].body),
                  IF calcInputSchema(args[r].body).success
                  THEN loadStateRules(CalcTaxYear, calcInputSchema(args[r].body).data.state,
                                      RULES_CACHE)
                  ELSE [threw |-> TRUE, found |-> FALSE, cache |-> RULES_CACHE])
    /\ UNCHANGED <<Data, CACHE, args>>

\* the entitlement row comes back, or an error: a premium user skips the daily limit
CalcEntitled(r) ==
    /\ pc[r].at = "entitlement"
    /\ \E entitlementError \in BOOLEAN :
          IF entitlementError
          THEN CalcAnswers(r, 500, "Failed to load entitlement")
          ELSE CalcAwaits(r, [pc[r] EXCEPT
                                 !.at = IF pc[r].isPremium THEN "compute" ELSE "count"])
    /\ UNCHANGED <<Data, RULES_CACHE, CACHE, args>>

\* the count of the user's simulations of today comes back, or an error
CalcCounted(r) ==
    /\ pc[r].at = "count"
    /\ \E countErr \in BOOLEAN :
          IF countErr
          THEN CalcAnswers(r, 500, "Failed to check daily limit")
          ELSE IF Len(simulations) >= CalcDailyLimit
          THEN CalcAnswers(r, 429, "Daily limit reached. Upgrade to simulate more.")
          ELSE CalcAwaits(r, [pc[r] EXCEPT !.at = "compute"])
    /\ UNCHANGED <<Data, RULES_CACHE, CACHE, args>>

\* const computed = await computeSimulation({...}); a throw is answered 500
CalcComputed(r, computed) ==
    /\ IF computed.threw
       THEN CalcAnswers(r, 500, "Failed to calculate")
       ELSE CalcAwaits(r, [pc[r] EXCEPT !.at = "save"]
                          @@ [computed |-> [k \in DOMAIN computed \ {"caches"} |->
                                                computed[k]]])
    /\ RULES_CACHE' = computed.caches.rules
    /\ CACHE' = computed.caches.base

CalcComputes(r) ==
    /\ pc[r].at = "compute"
    /\ CalcComputed(r, computeSimulation(pc[r].data,
                                         [rules |-> RULES_CACHE, base |-> CACHE]))
    /\ UNCHANGED <<Data, args>>

\* the row saveSimulation inserts; bigserial gives the id
SimulationRow(f) ==
    [id |-> Len(simulations) + 1,
     w2_salary |-> f.data.w2Salary, income_1099 |-> f.data.income1099,
     state |-> f.data.state, expenses |-> f.data.expenses,
     result_winner |-> IF f.computed.annualDifference >= 0 THEN "1099" ELSE "W2",
     result_difference |-> f.computed.annualDifference,
     report_snapshot |-> Null]

\* saveSimulation: the insert fails and the id is "" (the result is sent all the same,
\* with no snapshot), or the row is in and the snapshot update is sent
CalcSaves(r) ==
    /\ pc[r].at = "save"
    /\ \E insertError \in BOOLEAN :
          IF insertError
          THEN /\ CalcAnswers(r, 200, CalcResult(pc[r], ""))
               /\ UNCHANGED simulations
          ELSE /\ simulations' = Append(simulations, SimulationRow(pc[r]))
               /\ CalcAwaits(r, [pc[r] EXCEPT !.at = "snapshot"]
                                @@ [simulationId |-> Len(simulations) + 1])
    /\ UNCHANGED <<compiled2026, compiledBase2026, federal2026, federalConstants,
                   RULES_CACHE, CACHE, args>>

\* saveReportSnapshot (best effort), then return c.json(result)
CalcSnapshots(r) ==
    /\ pc[r].at = "snapshot"
    /\ \E error \in BOOLEAN :
          simulations' =
              IF error THEN simulations
              ELSE [simulations EXCEPT ![pc[r].simulationId].report_snapshot =
                        CalcResult(pc[r], pc[r].simulationId).type]
    /\ CalcAnswers(r, 200, CalcResult(pc[r], pc[r].simulationId))
    /\ UNCHANGED <<compiled2026, compiledBase2026, federal2026, federalConstants,
                   RULES_CACHE, CACHE, args>>

NextCalc ==
    \E r \in CalcRequests :
        \/ CalcParses(r)
        \/ CalcEntitled(r)
        \/ CalcCounted(r)
        \/ CalcComputes(r)
        \/ CalcSaves(r)
        \/ CalcSnapshots(r)

SpecCalc == InitCalc /\ [][NextCalc]_vars

\* the requests answered with a simulation result
Simulated == {r \in CalcRequests : pc[r].at = "done" /\ res[r].status = 200}

\* the requests turned away by the daily limit
Limited == {r \in CalcRequests : pc[r].at = "done" /\ res[r].status = 429}

\* the user is not premium
FreeUser == \A r \in CalcRequests : ~pc[r].isPremium

\* the requests that were valid and met no failing query
Served ==
    {r \in CalcRequests : pc[r].at = "done" /\ res[r].status \notin {400, 500}}

\* C15: over any sequence or interleaving of POST /api/calc requests by one
\* non-premium user in one day, at most one request receives a simulation result and
\* every other one is answered with status 429
C15_FreeDailyLimit ==
    FreeUser =>
        /\ Cardinality(Simulated) <= 1
        /\ Cardinality(Served \ Limited) <= 1

(***************************************************************************)
(* Claims on the conformity and deduction amounts                          *)
(***************************************************************************)
\* the sum, in list order, of the amounts of the rules that apply in a context
RECURSIVE AppliedSum(_, _)
AppliedSum(rules, ctx) ==
    IF Len(rules) = 0 THEN 0
    ELSE (IF evalRule(Head(rules), ctx, <<>>, <<>>).applied
          THEN evalRule(Head(rules), ctx, <<>>, <<>>).amount ELSE 0)
         + AppliedSum(Tail(rules), ctx)

ConformityReturned == pc = "done" /\ args.fn = "applyStateConformity" /\ ~res.threw

AdditionsOf(stateRules) ==
    Get(Get(stateRules, "adjustments", EmptyObject), "additions", <<>>)
SubtractionsOf(stateRules) ==
    Get(Get(stateRules, "adjustments", EmptyObject), "subtractions", <<>>)

\* the context the additions are to be evaluated in: stateAGI = base
AdditionsCtx ==
    EvalCtxOf(args.ctx, args.federalAGI,
              StartingBase(args.federalAGI, args.stateRules, args.ctx))

\* the sum of the applied additions
TotalAdd == AppliedSum(AdditionsOf(args.stateRules), AdditionsCtx)

\* the sum of the applied subtractions, evaluated with stateAGI = base + totalAdd
TotalSub ==
    AppliedSum(SubtractionsOf(args.stateRules),
               [AdditionsCtx EXCEPT !.stateAGI = @ + TotalAdd])

\* C16: applyStateConformity returns value = clamp0(base + totalAdd - totalSub), every
\* addition rule being evaluated with stateAGI = base and every subtraction rule with
\* stateAGI = base + totalAdd, totalAdd and totalSub being the sums of the applied,
\* non-negative rule amounts in list order
C16_ConformityValue ==
    ConformityReturned =>
        /\ TotalAdd >= 0 /\ TotalSub >= 0
        /\ res.value = clamp0(AdditionsCtx.stateAGI + TotalAdd - TotalSub)

\* an addition applies and a subtraction that reads stateAGI sees the sum
C16_Witness ==
    /\ ConformityReturned
    /\ TotalAdd = 3
    /\ Len(SubtractionsOf(args.stateRules)) = 2
    /\ SubtractionsOf(args.stateRules)[2].id = "agi"
    /\ TotalSub = 13
    /\ res.value = 0

DeductionsReturned == pc = "done" /\ args.fn = "applyStateDeductions" /\ ~res.threw

\* the block's override for the caller's filing status if present, else its default,
\* else 0
OverrideOrDefault(block) ==
    LET deductions == Get(args.stateRules, "deductions", EmptyObject)
        b == IF block \in DOMAIN deductions THEN deductions[block] ELSE EmptyObject
    IN  IF "byStatus" \in DOMAIN b /\ args.ctx.filingStatus \in DOMAIN b.byStatus
        THEN b.byStatus[args.ctx.filingStatus]
        ELSE IF "default" \in DOMAIN b THEN b.default ELSE 0

OptedIntoItemized == "useItemized" \in DOMAIN args.ctx /\ args.ctx.useItemized

\* the sum of the applied itemized rules for a caller who opted in, 0 otherwise
ItemizedTotal ==
    IF OptedIntoItemized
    THEN AppliedSum(Get(Get(args.stateRules, "deductions", EmptyObject),
                        "itemizedRules", <<>>),
                    [stateAGI |-> args.stateAGI] @@ args.ctx)
    ELSE 0

\* C17: applyStateDeductions returns clamp0(stateAGI - standardDeduction -
\* personalExemption - itemizedTotal), each of standardDeduction and personalExemption
\* being the per-filing-status override if present, else the ruleset default, else 0,
\* and itemizedTotal the sum of the applied itemized rule amounts when the caller opted
\* into itemized deductions and 0 otherwise
C17_DeductionsValue ==
    DeductionsReturned =>
        res.value = clamp0(args.stateAGI - OverrideOrDefault("standardDeduction")
                           - OverrideOrDefault("personalExemption") - ItemizedTotal)

\* an override for the filing status beside a default, an exemption by default, and
\* an itemized rule that applies: 20 - 9 - 5 - 3
C17_Witness ==
    /\ DeductionsReturned
    /\ args.stateAGI = 20 /\ args.ctx.filingStatus = "mfj"
    /\ OverrideOrDefault("standardDeduction") = 9
    /\ Get(args.stateRules.deductions.standardDeduction, "default", 0) = 5
    /\ OverrideOrDefault("personalExemption") = 5
    /\ ItemizedTotal = 3
    /\ res.value = 3

\* the rule is switched off or waits for detail
RuleSkipped(rule) == RuleDisabled(rule) \/ RuleNeedsDetail(rule)

\* a rule list without the skipped rules
ActiveRules(rules) == SelectSeq(rules, LAMBDA rule : ~RuleSkipped(rule))

\* the ruleset of the call without the skipped rules
ActiveRuleset ==
    [b \in DOMAIN args.stateRules |->
        IF b \in {"adjustments", "deductions"}
        THEN [f \in DOMAIN args.stateRules[b] |->
                 IF f \in {"additions", "subtractions", "itemizedRules"}
                 THEN ActiveRules(args.stateRules[b][f])
                 ELSE args.stateRules[b][f]]
        ELSE args.stateRules[b]]

\* the lists of the call hold a skipped rule
HoldsSkipped ==
    \E b \in DOMAIN args.stateRules \cap {"adjustments", "deductions"} :
       \E f \in DOMAIN args.stateRules[b] \cap {"additions", "subtractions", "itemizedRules"} :
          \E i \in 1..Len(args.stateRules[b][f]) : RuleSkipped(args.stateRules[b][f][i])

\* what a caller makes of a result: the failure, or the value and the applied list
Outcome(r) == IF r.threw THEN <<"threw">> ELSE <<r.value, r.applied>>

\* the result of the call had the ruleset been without its skipped rules
OutcomeOfActive ==
    IF args.fn = "applyStateConformity"
    THEN Outcome(applyStateConformity(args.federalAGI, ActiveRuleset, args.ctx))
    ELSE Outcome(applyStateDeductions(args.stateAGI, ActiveRuleset, args.ctx))

ApplyReturned ==
    /\ pc = "done"
    /\ args.fn \in {"applyStateConformity", "applyStateDeductions"}

\* C18: a rule with enabled = false or status = needs_detail never applies: for every
\* when and amount expression and every context evalRule returns applied = false and
\* amount 0, the rule is absent from the applied list and changes neither the
\* conformity nor the deduction result; every other rule that applies contributes an
\* amount >= 0, also when its amount expression is negative or not finite
C18_SkippedNeverApply ==
    /\ (RuleEvaluated /\ RuleSkipped(args.rule)) =>
          ~res.threw /\ ~res.applied /\ res.amount = 0
    /\ (RuleEvaluated /\ ~res.threw /\ res.applied) => res.amount >= 0
    /\ ApplyReturned => Outcome(res) = OutcomeOfActive
    /\ (ApplyReturned /\ ~res.threw) =>
          \A i \in 1..Len(res.applied) :
             /\ res.applied[i].id \notin {"off", "detail"}
             /\ IF res.applied[i].kind = "subtraction"
                THEN res.applied[i].amount <= 0 ELSE res.applied[i].amount >= 0

\* a skipped rule with a condition and an amount of its own is evaluated
C18_Witness ==
    /\ RuleEvaluated /\ RuleDisabled(args.rule)
    /\ "when" \in DOMAIN args.rule /\ "amount" \in DOMAIN args.rule
    /\ args.rule.amount = Const(3)
    /\ ~res.applied /\ res.amount = 0

(***************************************************************************)
(* Claims on the case expression                                           *)
(***************************************************************************)
\* a sub-expression evaluated on its own, with empty arrays
Alone1(e, ctx) == evalExpr(e, ctx, <<>>, <<>>)

\* the sub-expressions a case expression is to evaluate, in order: the conditions up
\* to the first truthy one and its then, or every condition and the default
RECURSIVE CaseTrail(_, _, _)
CaseTrail(e, k, ctx) ==
    IF k > Len(Get(e, "cases", <<>>)) THEN <<e.default>>
    ELSE IF toBool(Alone1(e.cases[k].when, ctx).value)
    THEN <<e.cases[k].when, e.cases[k].then>>
    ELSE <<e.cases[k].when>> \o CaseTrail(e, k + 1, ctx)

\* what the sub-expressions of a trail push to an array, in order
RECURSIVE TrailPushes(_, _, _)
TrailPushes(trail, ctx, array) ==
    IF Len(trail) = 0 THEN <<>>
    ELSE Alone1(Head(trail), ctx)[array] \o TrailPushes(Tail(trail), ctx, array)

\* a case expression with a when and a then in each branch and a default
WellFormedCase(e) ==
    /\ "op" \in DOMAIN e /\ e.op = "case" /\ "default" \in DOMAIN e
    /\ \A k \in 1..Len(Get(e, "cases", <<>>)) :
          "when" \in DOMAIN e.cases[k] /\ "then" \in DOMAIN e.cases[k]

CaseEvaluated == ExprEvaluated /\ WellFormedCase(args.expr) /\ ~res.threw

\* the trail of the call
Trail == CaseTrail(args.expr, 1, args.ctx)

\* C19: a case expression evaluates its branch conditions in list order and yields
\* the then-value of the first branch whose condition is truthy, or the default's
\* value when none is; the branches after the winning one, and the default when a
\* branch wins, are not evaluated and add nothing to warnings or missingInputs
C19_CaseFirstTruthy ==
    CaseEvaluated =>
        /\ res.value = Alone1(Trail[Len(Trail)], args.ctx).value
        /\ res.warnings = args.warnings \o TrailPushes(Trail, args.ctx, "warnings")
        /\ res.missingInputs =
              args.missingInputs \o TrailPushes(Trail, args.ctx, "missingInputs")

\* the first of two branches wins; the second branch and the default would each have
\* recorded a missing fact
C19_Witness ==
    /\ CaseEvaluated
    /\ Len(Get(args.expr, "cases", <<>>)) = 2
    /\ Len(Trail) = 2
    /\ Len(Alone1(args.expr.cases[2].then, args.ctx).missingInputs) = 1
    /\ Len(Alone1(args.expr.default, args.ctx).missingInputs) = 1
    /\ Len(Alone1(args.expr.cases[1].when, args.ctx).missingInputs) = 0
    /\ res.missingInputs = args.missingInputs
    /\ res.value = NumV(3)

(***************************************************************************)
(* Claims on the QBI phase-out range                                       *)
(***************************************************************************)
\* the phase-out range the constants name for the filing status, 0 when they name none
ConfiguredPhaseoutRange ==
    Get(Get(federal2026.qbi, "phaseoutRange", EmptyObject), args.p.filingStatus, 0)

\* calcQbiDeduction has returned on a QBI block whose phase-out range for the filing
\* status is zero, negative or absent
QbiWithoutPhaseout ==
    /\ pc = "done" /\ args.fn = "calcQbiDeduction"
    /\ "qbi" \in DOMAIN federal2026
    /\ ConfiguredPhaseoutRange <= 0

\* C20: when the phase-out range configured for the filing status is <= 0 (zero,
\* negative or absent), the QBI deduction is min(tentative, taxableLimit) for every
\* taxableBeforeQbi, also above the threshold, whatever the wages, the UBIA and the
\* SSTB flag
C20_NoPhaseoutRange ==
    QbiWithoutPhaseout =>
        res.value = Min(QbiTentative(federal2026.qbi, args.p),
                        QbiTaxableLimit(federal2026.qbi, args.p))

\* calcQbiDeduction has returned for a taxable income above the threshold, on a QBI
\* block that names a positive phase-out range for the filing status
QbiPhasedOut ==
    /\ pc = "done" /\ args.fn = "calcQbiDeduction"
    /\ "qbi" \in DOMAIN federal2026
    /\ ConfiguredPhaseoutRange > 0
    /\ args.p.taxableBeforeQbi > QbiThreshold(federal2026.qbi, args.p)

\* the greater of 50% of the wages and 25% of the wages plus 2.5% of the UBIA, to cents
WageUbiaLimit(wages, property) ==
    round2(Max(MulRate(wages, 5000), MulRate(wages, 2500) + MulRate(property, 250)))

\* amount * (1 - ratio), ratio = (taxableBeforeQbi - threshold) / phaseoutRange, to cents
ScaledDown(amount) ==
    round2(MulDiv(amount,
                  ConfiguredPhaseoutRange
                     - (args.p.taxableBeforeQbi - QbiThreshold(federal2026.qbi, args.p)),
                  ConfiguredPhaseoutRange))

\* the deduction of the phase-out as stated, from the tentative amount, the wage limit
\* and the taxable limit of the call
PhasedDeduction(tentative, wageLimit, taxableLimit) ==
    LET over == args.p.taxableBeforeQbi - QbiThreshold(federal2026.qbi, args.p)
        within == over < ConfiguredPhaseoutRange
        sstb == args.p.businessType = "sstb"
    IN  CASE within /\ sstb ->
                Min(Min(round2(MulRate(ScaledDown(args.p.qbiBase), federal2026.qbi.rate)),
                        WageUbiaLimit(ScaledDown(args.p.w2Wages), ScaledDown(args.p.ubia))),
                    taxableLimit)
          [] within /\ ~sstb ->
                IF wageLimit < tentative
                THEN Min(round2(tentative - MulDiv(tentative - wageLimit, over,
                                                   ConfiguredPhaseoutRange)),
                         taxableLimit)
                ELSE Min(tentative, taxableLimit)
          [] ~within /\ sstb -> 0
          [] OTHER -> Min(Min(tentative, wageLimit), taxableLimit)

\* C21: for threshold < taxableBeforeQbi < threshold + phaseoutRange, with ratio =
\* (taxableBeforeQbi - threshold) / phaseoutRange, an SSTB deduction is the least of
\* the tentative amount and the wage/UBIA limit, both recomputed from qbiBase, w2Wages
\* and ubia scaled by 1 - ratio, and of taxableLimit; a non-SSTB deduction is
\* min(tentative - ratio * (tentative - wageLimit), taxableLimit) when wageLimit <
\* tentative and min(tentative, taxableLimit) otherwise; at or above the upper bound
\* an SSTB gets 0 and a non-SSTB min(tentative, wageLimit, taxableLimit)
C21_QbiPhaseout ==
    QbiPhasedOut =>
        res.value =
           PhasedDeduction(
               round2(MulRate(args.p.qbiBase, federal2026.qbi.rate)),
               WageUbiaLimit(args.p.w2Wages, args.p.ubia),
               round2(MulRate(clamp0(args.p.taxableBeforeQbi - args.p.netCapitalGains),
                              federal2026.qbi.rate)))

\* an SSTB of a single filer 22,700 into a phase-out of 50,000: qbiBase 50000 and
\* wages 20000 scaled by 0.546 give 5460.00 on both limits
C21_Witness ==
    /\ QbiPhasedOut
    /\ args.p.filingStatus = "single" /\ args.p.businessType = "sstb"
    /\ args.p.taxableBeforeQbi = Dollars(220000)
    /\ ConfiguredPhaseoutRange = Dollars(50000)
    /\ args.p.qbiBase = Dollars(50000) /\ args.p.w2Wages = Dollars(20000)
    /\ args.p.ubia = 0 /\ args.p.netCapitalGains = 0
    /\ res.value = Dollars(5460)

(***************************************************************************)
(* Claims on the credits                                                   *)
(***************************************************************************)
ChildCreditsReturned ==
    /\ pc = "done" /\ args.fn = "calcChildCredits"
    /\ "ctc" \in DOMAIN federal2026

\* clamp0(children * perChild + otherDependents * perOtherDependent
\*        - ceil(clamp0(magi - phaseoutStart) / step) * amountPerStep)
PhasedOutCredit ==
    LET c == federal2026.ctc
        excess == clamp0(args.p.magi - c.phaseoutStart[args.p.filingStatus])
    IN  clamp0(args.p.qualifyingChildren * c.perQualifyingChild
               + args.p.otherDependents * c.perOtherDependent
               - (0 - ((0 - excess) \div c.phaseoutStep)) * c.phaseoutAmountPerStep)

\* children * maxRefundablePerChild
RefundableCap == args.p.qualifyingChildren * federal2026.ctc.maxRefundablePerChild

\* C22: the phased-out child credit is clamp0(children * perChild + otherDependents *
\* perOtherDependent - ceil(clamp0(magi - phaseoutStart) / step) * amountPerStep); the
\* non-refundable portion never exceeds the federal tax before credits, the refundable
\* portion never exceeds children * maxRefundablePerChild, and the two together never
\* exceed the phased-out credit, which they use up as far as the two caps allow
C22_ChildCreditSplit ==
    ChildCreditsReturned =>
        /\ res.value.ctcNonRefundableUsed <= args.p.federalTaxBeforeCredits
        /\ res.value.ctcRefundable <= RefundableCap
        /\ res.value.ctcNonRefundableUsed + res.value.ctcRefundable <= PhasedOutCredit
        /\ res.value.ctcNonRefundableUsed + res.value.ctcRefundable
              = Min(PhasedOutCredit, args.p.federalTaxBeforeCredits + RefundableCap)
        /\ res.value.totalCreditsApplied
              = res.value.ctcNonRefundableUsed + res.value.ctcRefundable

\* a single filer one cent over the start of the phase-out, two children and one other
\* dependent, a tax of 1000: 4500 - 50 = 4450, of which 1000 and 3400 are used
C22_Witness ==
    /\ ChildCreditsReturned
    /\ args.p.filingStatus = "single" /\ args.p.magi = Dollars(200000) + 10
    /\ args.p.qualifyingChildren = 2 /\ args.p.otherDependents = 1
    /\ args.p.federalTaxBeforeCredits = Dollars(1000)
    /\ PhasedOutCredit = Dollars(4450)
    /\ res.value.ctcNonRefundableUsed = Dollars(1000)
    /\ res.value.ctcRefundable = Dollars(3400)

CaCreditsReturned == pc = "done" /\ args.fn = "calcCaCredits"

\* the CalEITC row of the call, for a CA resident without a young child, so that the
\* credit returned is the earned-income credit alone
CalEitcAlone ==
    /\ CaCreditsReturned /\ args.p.state = "CA" /\ ~args.p.hasYoungChild
    /\ "ca" \in DOMAIN federal2026
    /\ Kids(args.p.qualifyingChildren) \in DOMAIN federal2026.ca.calEitcTable

CalEitcRow == federal2026.ca.calEitcTable[Kids(args.p.qualifyingChildren)]

\* C23: the CA earned-income credit has the phase-in/phase-out shape of the federal
\* EITC: it phases in from 0 at zero earned income up to maxCredit, and phases out
\* above phaseOutStart; the CA credits are 0 for every state other than CA
C23_CaCreditShape ==
    /\ (CaCreditsReturned /\ args.p.state # "CA") => res.value.caCredits = 0
    /\ CalEitcAlone =>
          /\ res.value.caCredits <= CalEitcRow.maxCredit
          /\ args.p.earnedIncome = 0 => res.value.caCredits = 0
          /\ args.p.earnedIncome > CalEitcRow.phaseOutStart =>
                res.value.caCredits =
                   round2(clamp0(CalEitcRow.maxCredit
                                 - MulRate(args.p.earnedIncome - CalEitcRow.phaseOutStart,
                                           CalEitcRow.phaseOutRate)))

(***************************************************************************)
(* Claims on the penalty-risk tracker                                      *)
(***************************************************************************)
PenaltyRiskReturned == pc = "done" /\ args.fn = "buildPenaltyRiskLite"

\* the quarters whose due date has passed at the time of the call
QuartersDue == Cardinality({k \in 1..4 : args.now > DUE_DATES[k]})

\* the estimated payment counted for quarter k: the quarter's own payment, or an
\* even share of the year-to-date total for each quarter already due
AllocatedTo(k) ==
    IF args.p.usePerQuarterPayments
    THEN clamp0(<<args.p.paymentsMadeQ1, args.p.paymentsMadeQ2,
                  args.p.paymentsMadeQ3, args.p.paymentsMadeQ4>>[k])
    ELSE IF k <= QuartersDue
         THEN round2(DivRound(clamp0(args.p.paymentsMadeYtdAnnual), QuartersDue))
         ELSE 0

\* k quarters of the withholding spread evenly over the year, to cents a quarter,
\* and the estimated payments allocated to Q1..Qk
PaidThrough(k) ==
    round2(k * round2(DivRound(clamp0(args.p.withholdingAnnual), 4))
           + AllocatedTo(1) * (IF k >= 1 THEN 1 ELSE 0)
           + AllocatedTo(2) * (IF k >= 2 THEN 1 ELSE 0)
           + AllocatedTo(3) * (IF k >= 3 THEN 1 ELSE 0)
           + AllocatedTo(4) * (IF k >= 4 THEN 1 ELSE 0))

\* k * 25% of the annual safe-harbor amount, to cents
RequiredThrough(k) == round2(MulRate(args.p.safeHarborRequiredAnnual, 2500 * k))

\* C24: for each due date Qk the tracker reports the cumulative requirement k * 25% of
\* the annual safe-harbor amount, the cumulative amount paid (k quarters of evenly
\* spread withholding plus the estimated payments allocated to Q1..Qk) and the
\* underpayment clamp0(required - paid); both cumulative series never decrease in k;
\* protectedBySafeHarbor is true when no quarter is due yet, and otherwise exactly when
\* paid-to-date + 0.01 >= required-to-date at the latest due quarter
C24_PenaltyRisk ==
    PenaltyRiskReturned =>
        LET rows == res.value.underpaymentByQuarter
            due == QuartersDue
        IN  /\ \A k \in 1..4 :
                /\ rows[k].requiredByDueDate = RequiredThrough(k)
                /\ rows[k].paidByDueDate = PaidThrough(k)
                /\ rows[k].underpayment
                    = clamp0(rows[k].requiredByDueDate - rows[k].paidByDueDate)
            /\ \A k \in 1..3 :
                /\ rows[k].requiredByDueDate <= rows[k + 1].requiredByDueDate
                /\ rows[k].paidByDueDate <= rows[k + 1].paidByDueDate
            /\ res.value.quartersPassed = due
            /\ due = 0 => res.value.protectedBySafeHarbor
            /\ due > 0 =>
                /\ res.value.paidToDate = rows[due].paidByDueDate
                /\ res.value.safeHarborRequiredToDate = rows[due].requiredByDueDate
                /\ res.value.protectedBySafeHarbor
                    <=> (res.value.paidToDate + 10 >= res.value.safeHarborRequiredToDate)

\* three quarters are due, the first two were paid in full and the third was not: the
\* tracker reports an underpayment for Q3 and no protection
C24_Witness ==
    /\ PenaltyRiskReturned
    /\ QuartersDue = 3
    /\ args.p.usePerQuarterPayments
    /\ res.value.underpaymentByQuarter[2].underpayment = 0
    /\ res.value.underpaymentByQuarter[3].underpayment = Dollars(2500)
    /\ ~res.value.protectedBySafeHarbor

\* the quarters due at the time of the call that the tracker reports as underpaid by
\* more than a cent
UnderpaidDueQuarters ==
    {k \in 1..QuartersDue : res.value.underpaymentByQuarter[k].underpayment > 10}

\* C28: whenever protectedBySafeHarbor is true, every quarter whose due date has
\* passed has an underpayment of at most 0.01, with per-quarter payments as well as
\* with a year-to-date total
C28_ProtectedMeansPaid ==
    (PenaltyRiskReturned /\ res.value.protectedBySafeHarbor) => UnderpaidDueQuarters = {}

\* the estimated payment the tracker counted for quarter k, read off its rows: what
\* the cumulative amount paid grew by at Qk beyond the quarter's withholding
AllocatedBy(rows, k) ==
    rows[k].paidByDueDate - (IF k = 1 THEN 0 ELSE rows[k - 1].paidByDueDate)
    - round2(DivRound(clamp0(args.p.withholdingAnnual), 4))

\* a call with a year-to-date payment total and no per-quarter payments
YtdOnly == PenaltyRiskReturned /\ ~args.p.usePerQuarterPayments

\* C29: when only a year-to-date payment total is supplied, the amounts allocated to
\* the four quarters sum to that total, within one cent per quarter, for every number
\* of quarters already due (0 through 4), and nothing is allocated to a quarter that
\* is not yet due
C29_YtdAllocation ==
    YtdOnly =>
        LET rows == res.value.underpaymentByQuarter
            total == AllocatedBy(rows, 1) + AllocatedBy(rows, 2)
                     + AllocatedBy(rows, 3) + AllocatedBy(rows, 4)
        IN  /\ total - clamp0(args.p.paymentsMadeYtdAnnual) \in -40..40
            /\ \A k \in 1..4 : k > QuartersDue => AllocatedBy(rows, k) = 0

(***************************************************************************)
(* Claims on the state tax result                                          *)
(***************************************************************************)
\* calcStateTaxFromTaxableBase has returned a result
StateTaxResultReturned ==
    /\ pc = "done" /\ args.fn = "calcStateTaxFromTaxableBase"
    /\ ~res.threw

\* C25: the effective rate returned with a state tax result is tax / taxableBase when
\* taxableBase > 0 and 0 otherwise, for flat and progressive states alike: a flat
\* rate of 4.25% gives 0.0425 (here to the four decimals of a rate)
C25_EffectiveRate ==
    StateTaxResultReturned =>
        res.effectiveRate = IF clamp0(args.amount) > 0
                            THEN ExactRate(res.tax, clamp0(args.amount))
                            ELSE 0

(***************************************************************************)
(* Claims on the break-even search                                         *)
(***************************************************************************)
\* the evaluation e is in findBreakEven's first or second loop
Doubles(e) == pc[e].at = "doubling"
Bisects(e) == pc[e].at = "bisect"

\* the loops stay within their rounds and the search within its bounds
SearchWithinBounds ==
    \A e \in Evaluations :
        /\ Doubles(e) => pc[e].i \in 0..11 /\ pc[e].low = 0 /\ pc[e].low <= pc[e].high
        /\ Bisects(e) => /\ pc[e].i \in 0..29
                         /\ pc[e].low <= pc[e].mid /\ pc[e].mid <= pc[e].high

\* a step of the evaluation e in the search: the baseline is evaluated once; a round
\* of the first loop ends the loop when the upper bound reaches the target or the
\* twelfth round is over, and otherwise doubles the upper bound and counts the
\* round; a round of the second loop takes the midpoint and counts the round, and
\* the thirtieth returns its midpoint
SearchStep(e) ==
    /\ (pc[e].at = "compared" /\ pc'[e] # pc[e]) =>
            Doubles(e)' /\ pc'[e].i = 0
    /\ (Doubles(e) /\ pc'[e] # pc[e]) =>
            \/ Doubles(e)' /\ pc'[e].i = pc[e].i + 1 /\ pc'[e].high = 2 * pc[e].high
            \/ Bisects(e)' /\ pc'[e].i = 0 /\ pc'[e].high = pc[e].high
            \/ Bisects(e)' /\ pc'[e].i = 0 /\ pc'[e].high = 2 * pc[e].high
                           /\ pc[e].i = 11
    /\ (Bisects(e) /\ pc'[e] # pc[e]) =>
            \/ /\ Bisects(e)' /\ pc'[e].i = pc[e].i + 1
               /\ pc'[e].mid = (pc[e].low + pc[e].high) \div 2
               /\ pc'[e].mid \in {pc'[e].low, pc'[e].high}
            \/ /\ pc'[e] = AtDone /\ pc[e].i = 29
               /\ ~res'[e].threw
               /\ res'[e].breakEven1099Income = (pc[e].low + pc[e].high) \div 2

\* every evaluation has returned
AllReturned == \A e \in Evaluations : pc[e] = AtDone

\* the isolate after a first evaluation, a state tax of IL, has returned: the second
\* one runs on its own from the caches the first one left
InitSearch ==
    /\ \E call \in ConcurrentCalls :
          args = [e \in Evaluations |->
                    IF e = 1
                    THEN [fn |-> "calcStateTax", year |-> 2026, state |-> "IL",
                          filingStatus |-> "single", taxableIncome |-> Dollars(50000)]
                    ELSE call]
    /\ compiled2026 = CompiledFile(ExampleTable)
    /\ compiledBase2026 = ScenarioBaseFile
    /\ federal2026 = FederalFile(FEDERAL_BRACKETS_2026_SINGLE, TRUE)
    /\ federalConstants = NoFederalConstants
    /\ LET first == calcStateTax([fn |-> "calcStateTax", year |-> 2026, state |-> "IL",
                                  filingStatus |-> "single",
                                  taxableIncome |-> Dollars(50000)], EmptyCache)
       IN  /\ RULES_CACHE = first.cache
           /\ res = [e \in Evaluations |-> IF e = 1 THEN first.result ELSE NoResult]
    /\ CACHE = EmptyCache
    /\ simulations = <<>>
    /\ pc = [e \in Evaluations |-> IF e = 1 THEN AtDone ELSE AtCall]

\* the steps of an evaluation are promise continuations, which the event loop runs
\* as long as there is one to run: weak fairness of NextConcurrent, with its
\* enabling condition written out (an evaluation that has not returned has a step to
\* take) and its steps told by the position they change
SpecSearch ==
    /\ InitSearch /\ [][NextConcurrent]_vars
    /\ ([]<>AllReturned \/ []<><<TRUE>>_pc)

MismatchedFile ==
    [CompiledFile(ExampleTable) EXCEPT !["OR"].state = "CA", !["NH"].year = 2025]

LoadYears == {2025, 2026}

InitCaches ==
    /\ compiled2026 \in {CompiledFile(ExampleTable), MismatchedFile}
    /\ compiledBase2026 \in {ScenarioBaseFile, [version |-> "1"]}
    /\ federal2026 = NoFederalFile
    /\ federalConstants = NoFederalConstants
    /\ RULES_CACHE = EmptyCache
    /\ CACHE = EmptyCache
    /\ simulations = <<>>
    /\ args = NoResult
    /\ res = NoResult
    /\ pc = "idle"

\* what a load hands back: whether it threw, whether it returned a ruleset and which,
\* and whether the key was in the cache when the load began
Loaded(r, cache, key) ==
    [threw |-> r.threw,
     found |-> "rules" \in DOMAIN r,
     rules |-> IF "rules" \in DOMAIN r THEN r.rules ELSE NoResult,
     cached |-> key \in DOMAIN cache]

LoadStateRules ==
    \E y \in LoadYears, stateRaw \in RawStates :
        LET r == loadStateRules(y, stateRaw, RULES_CACHE)
        IN  /\ args' = [fn |-> "loadStateRules", year |-> y, state |-> stateRaw]
            /\ res' = Loaded(r, RULES_CACHE, CacheKey(y, normalizeState(stateRaw)))
            /\ RULES_CACHE' = r.cache
            /\ UNCHANGED <<Data, CACHE, pc>>

LoadStateBaseRules ==
    \E y \in LoadYears, stateRaw \in RawStates :
        LET r == loadStateBaseRules(y, stateRaw, CACHE)
        IN  /\ args' = [fn |-> "loadStateBaseRules", year |-> y, state |-> stateRaw]
            /\ res' = Loaded(r, CACHE, CacheKey(y, normalizeState(stateRaw)))
            /\ CACHE' = r.cache
            /\ UNCHANGED <<Data, RULES_CACHE, pc>>

NextCaches ==
    \/ LoadStateRules
    \/ LoadStateBaseRules

SpecCaches == InitCaches /\ [][NextCaches]_vars

(***************************************************************************)
(* Claims on the ruleset caches                                            *)
(***************************************************************************)
\* the upper-cased, trimmed codes of the states the loads name
StateCodes == {"CA", "NY", "IL", "TX", "OR", "NH", "ZZ"}

\* the compiled ruleset of the file for the key, if the file has one
CompiledRules(key) ==
    IF key[1] = 2026 /\ key[2] \in DOMAIN compiled2026
    THEN compiled2026[key[2]] ELSE NoResult

CompiledBaseRules(key) ==
    IF key[1] = 2026 /\ "states" \in DOMAIN compiledBase2026
       /\ key[2] \in DOMAIN compiledBase2026.states
    THEN compiledBase2026.states[key[2]] ELSE NoResult

\* every entry sits under (year, upper-cased trimmed state) and is the compiled
\* ruleset of that year and state
CachesHoldCompiled ==
    /\ \A key \in DOMAIN RULES_CACHE :
          /\ key \in LoadYears \X StateCodes
          /\ RULES_CACHE[key] # NoResult /\ RULES_CACHE[key] = CompiledRules(key)
          /\ RULES_CACHE[key].state = key[2] /\ RULES_CACHE[key].year = key[1]
    /\ \A key \in DOMAIN CACHE :
          /\ key \in LoadYears \X StateCodes
          /\ CACHE[key] # NoResult /\ CACHE[key] = CompiledBaseRules(key)

\* a load of the function fn keeps every entry of its cache as it is, adds at most
\* the entry of its own key, adds none when it throws or finds no ruleset, and
\* returns the entry of its key whenever it returns a ruleset; a load of the other
\* function leaves the cache alone
LoadKeeps(fn, cache, after) ==
    LET key == CacheKey(args'.year, normalizeState(args'.state))
    IN  IF args'.fn # fn THEN after = cache
        ELSE /\ \A k \in DOMAIN cache : k \in DOMAIN after /\ after[k] = cache[k]
             /\ DOMAIN after \subseteq DOMAIN cache \cup {key}
             /\ (res'.threw \/ ~res'.found) => after = cache
             /\ res'.found => key \in DOMAIN after /\ after[key] = res'.rules

\* C27: the ruleset caches are populate-once: after any sequence of loadStateRules and
\* loadStateBaseRules calls every cache entry for key (year, upper-cased trimmed
\* state) is exactly the compiled ruleset for that year and state; an entry is never
\* overwritten or removed; a load that throws or finds no ruleset (uncompiled year,
\* unknown state, state or year mismatch) leaves the cache unchanged; repeated loads
\* of one key, in any letter case, return the identical ruleset
C27_PopulateOnce ==
    /\ []CachesHoldCompiled
    /\ [][/\ LoadKeeps("loadStateRules", RULES_CACHE, RULES_CACHE')
          /\ LoadKeeps("loadStateBaseRules", CACHE, CACHE')]_vars

\* CA is loaded again, in lower case, and the load returns the entry the cache held,
\* after a load of a mismatched ruleset had left the cache without that entry
C27_Witness ==
    /\ args = [fn |-> "loadStateRules", year |-> 2026, state |-> "ca"]
    /\ Get(res, "cached", FALSE) /\ ~res.threw
    /\ res.rules = RULES_CACHE[<<2026, "CA">>]
    /\ compiled2026 = MismatchedFile
    /\ <<2026, "OR">> \notin DOMAIN RULES_CACHE
    /\ <<2026, "NY">> \in DOMAIN CACHE

\* the net profit and the W-2 wages the SE tax call was given
SeProfitGiven ==
    IF args.fn = "computeSelfEmploymentTax" THEN args.netProfit ELSE args.netProfitAnnual
SeWagesGiven ==
    IF args.fn = "computeSelfEmploymentTax" THEN args.w2Wages ELSE args.w2WagesAnnual

\* additionalMedicareRate * netEarnings, to cents
AdditionalOnEarnings ==
    round2(MulRate(MulRate(SeProfitGiven, SeConstantsRead.seNetEarningsFactor),
                   SeConstantsRead.additionalMedicareRate))

\* C30: the additional Medicare tax in the self-employment tax total is attributable
\* to self-employment earnings only: for every w2Wages >= 0 and netProfit >= 0 it
\* never exceeds additionalMedicareRate * netEarnings, so the self-employment tax
\* total is 0 when netProfit is 0
C30_AdditionalOnSeOnly ==
    (SeReturned /\ SeProfitGiven >= 0 /\ SeWagesGiven >= 0) =>
        /\ res.additionalMedicareTax <= AdditionalOnEarnings
        /\ SeProfitGiven = 0 => res.total = 0

====
